---- MODULE Spec2Model ----
(***************************************************************************)
(* Oculus data pipeline: xml_to_json.py, json_classification.py,           *)
(* generate_uri.py, json_to_db.py and run_pipeline.py, as state machines.  *)
(*                                                                         *)
(* Python strings are sequences of one-character strings, so that the      *)
(* text functions (lower, replace, split, strip, re.sub) are computed      *)
(* character by character as the interpreter computes them.                *)
(***************************************************************************)
EXTENDS Integers, Sequences, FiniteSets, TLC

\* ------------------------------------------------------------------------
\* Bounds of the model
\* ------------------------------------------------------------------------

\* Longest name handed to generate_uri in the pure-function specification.
MaxNameLen == 3

\* Most indexTerm elements of the document handed to collect_terms_from_xml
\* in the pure-function specification.
MaxIndexTerms == 3

\* Most document elements of the XML file.
MaxDocs == 2

\* Largest batch_size the configuration sets.
MaxBatchSize == 2

\* Most documents of the JSON file given to json_classification.py.
MaxJcDocs == 1

\* Most documents of the JSON file given to generate_uri.py.
MaxUriDocs == 1

\* Most records of a VIAF answer.
MaxViafRecords == 2

\* Most XML files handed to run_pipeline.
MaxFiles == 4

\* Longest term handed to normalize_term in the pure-function specification.
MaxTermLen == 5

\* Most documents of the JSON file given to json_to_db.py.
MaxDbDocs == 1

\* ------------------------------------------------------------------------
\* Text primitives of the Python runtime
\* ------------------------------------------------------------------------

None == "None"

Range(s) == {s[i] : i \in 1..Len(s)}

\* Characters \s matches and str.strip() removes.
IsSpace(c) == c \in {" ", "\t"}

\* str.lower() on one character.
LowerChar(c) ==
    CASE c = "A" -> "a"
      [] c = "B" -> "b"
      [] c = "X" -> "x"
      [] OTHER -> c

\* str.lower()
Lower(s) == [i \in 1..Len(s) |-> LowerChar(s[i])]

\* str.replace(ch, '') for a one-character ch.
Replace(s, ch) == SelectSeq(s, LAMBDA c : c # ch)

RECURSIVE LStrip(_)
LStrip(s) ==
    IF s # <<>> /\ IsSpace(Head(s)) THEN LStrip(Tail(s)) ELSE s

RECURSIVE RStrip(_)
RStrip(s) ==
    IF s # <<>> /\ IsSpace(s[Len(s)]) THEN RStrip(SubSeq(s, 1, Len(s) - 1)) ELSE s

\* str.strip()
Strip(s) == RStrip(LStrip(s))

\* re.sub(r'\s+', ' ', s): every maximal run of whitespace becomes one space.
RECURSIVE CollapseSpace(_)
CollapseSpace(s) ==
    IF s = <<>> THEN <<>>
    ELSE IF IsSpace(Head(s))
         THEN <<" ">> \o CollapseSpace(LStrip(s))
         ELSE <<Head(s)>> \o CollapseSpace(Tail(s))

\* Whether sep occurs in s at position i.
MatchAt(s, sep, i) ==
    /\ i + Len(sep) - 1 <= Len(s)
    /\ \A k \in 1..Len(sep) : s[i + k - 1] = sep[k]

\* str.split(sep): the pieces between the non-overlapping occurrences of sep,
\* found left to right. cur is the piece being read.
RECURSIVE SplitFrom(_, _, _, _)
SplitFrom(s, sep, i, cur) ==
    IF i > Len(s) THEN <<cur>>
    ELSE IF MatchAt(s, sep, i)
         THEN <<cur>> \o SplitFrom(s, sep, i + Len(sep), <<>>)
         ELSE SplitFrom(s, sep, i + 1, Append(cur, s[i]))

Split(s, sep) == SplitFrom(s, sep, 1, <<>>)

\* Position of the first ")" after position i, or 0.
RECURSIVE CloseAfter(_, _)
CloseAfter(s, i) ==
    IF i >= Len(s) THEN 0
    ELSE IF s[i + 1] = ")" THEN i + 1 ELSE CloseAfter(s, i + 1)

\* re.sub(r'\(.*?\)', '', s): each "(" that has a ")" after it is removed
\* together with the text up to the first such ")".
RECURSIVE RemoveParensFrom(_, _)
RemoveParensFrom(s, i) ==
    IF i > Len(s) THEN <<>>
    ELSE IF s[i] = "(" /\ CloseAfter(s, i) # 0
         THEN RemoveParensFrom(s, CloseAfter(s, i) + 1)
         ELSE <<s[i]>> \o RemoveParensFrom(s, i + 1)

RemoveParens(s) == RemoveParensFrom(s, 1)

\* hashlib.sha256(s.encode('utf-8')).hexdigest()[:8], as its eight hexadecimal
\* digits: the digests of the strings over a, b and the comma of up to four
\* characters, which are the strings the model hashes.
Sha256Hex8(s) ==
    CASE s = <<>> -> <<14, 3, 11, 0, 12, 4, 4, 2>>
      [] s = <<"a">> -> <<12, 10, 9, 7, 8, 1, 1, 2>>
      [] s = <<"b">> -> <<3, 14, 2, 3, 14, 8, 1, 6>>
      [] s = <<",">> -> <<13, 0, 3, 5, 0, 2, 12, 4>>
      [] s = <<"a", "a">> -> <<9, 6, 1, 11, 6, 13, 13, 3>>
      [] s = <<"a", "b">> -> <<15, 11, 8, 14, 2, 0, 15, 12>>
      [] s = <<"a", ",">> -> <<8, 8, 13, 9, 3, 6, 3, 4>>
      [] s = <<"b", "a">> -> <<9, 7, 0, 15, 5, 1, 9, 12>>
      [] s = <<"b", "b">> -> <<3, 11, 6, 4, 13, 11, 9, 5>>
      [] s = <<"b", ",">> -> <<10, 5, 9, 0, 2, 7, 1, 6>>
      [] s = <<",", "a">> -> <<14, 12, 9, 7, 13, 14, 1, 13>>
      [] s = <<",", "b">> -> <<9, 0, 1, 9, 13, 12, 6, 14>>
      [] s = <<",", ",">> -> <<2, 2, 8, 12, 1, 2, 5, 7>>
      [] s = <<"a", "a", "a">> -> <<9, 8, 3, 4, 8, 7, 6, 13>>
      [] s = <<"a", "a", "b">> -> <<3, 8, 7, 6, 0, 14, 10, 11>>
      [] s = <<"a", "a", ",">> -> <<13, 12, 0, 2, 7, 13, 4, 11>>
      [] s = <<"a", "b", "a">> -> <<14, 1, 2, 4, 10, 13, 12, 12>>
      [] s = <<"a", "b", "b">> -> <<7, 1, 5, 14, 13, 15, 8, 11>>
      [] s = <<"a", "b", ",">> -> <<11, 1, 5, 7, 14, 3, 0, 5>>
      [] s = <<"a", ",", "a">> -> <<0, 15, 5, 0, 3, 13, 4, 11>>
      [] s = <<"a", ",", "b">> -> <<1, 14, 11, 7, 12, 5, 4, 13>>
      [] s = <<"a", ",", ",">> -> <<8, 11, 6, 7, 7, 4, 14, 6>>
      [] s = <<"b", "a", "a">> -> <<6, 6, 5, 14, 13, 10, 14, 6>>
      [] s = <<"b", "a", "b">> -> <<14, 12, 13, 13, 9, 7, 4, 0>>
      [] s = <<"b", "a", ",">> -> <<9, 2, 12, 3, 15, 6, 3, 8>>
      [] s = <<"b", "b", "a">> -> <<3, 2, 4, 14, 8, 13, 5, 7>>
      [] s = <<"b", "b", "b">> -> <<3, 14, 7, 4, 4, 11, 9, 13>>
      [] s = <<"b", "b", ",">> -> <<1, 10, 5, 11, 15, 3, 4, 14>>
      [] s = <<"b", ",", "a">> -> <<7, 1, 13, 11, 2, 0, 13, 9>>
      [] s = <<"b", ",", "b">> -> <<14, 0, 14, 0, 7, 5, 10, 9>>
      [] s = <<"b", ",", ",">> -> <<4, 3, 14, 4, 6, 4, 5, 12>>
      [] s = <<",", "a", "a">> -> <<7, 15, 1, 14, 1, 0, 8, 6>>
      [] s = <<",", "a", "b">> -> <<15, 4, 6, 7, 1, 2, 14, 10>>
      [] s = <<",", "a", ",">> -> <<1, 4, 3, 2, 4, 13, 7, 11>>
      [] s = <<",", "b", "a">> -> <<12, 11, 4, 1, 8, 7, 3, 6>>
      [] s = <<",", "b", "b">> -> <<6, 13, 0, 8, 10, 12, 3, 6>>
      [] s = <<",", "b", ",">> -> <<1, 4, 14, 11, 7, 11, 13, 8>>
      [] s = <<",", ",", "a">> -> <<12, 8, 9, 3, 3, 13, 4, 4>>
      [] s = <<",", ",", "b">> -> <<0, 1, 1, 13, 12, 14, 13, 9>>
      [] s = <<",", ",", ",">> -> <<6, 7, 8, 3, 7, 6, 6, 8>>
      [] s = <<"a", "a", "a", "a">> -> <<6, 1, 11, 14, 5, 5, 10, 8>>
      [] s = <<"a", "a", "a", "b">> -> <<8, 5, 14, 9, 0, 15, 7, 15>>
      [] s = <<"a", "a", "a", ",">> -> <<3, 14, 8, 13, 7, 6, 11, 4>>
      [] s = <<"a", "a", "b", "a">> -> <<6, 9, 4, 2, 3, 11, 6, 5>>
      [] s = <<"a", "a", "b", "b">> -> <<4, 8, 6, 11, 3, 4, 2, 5>>
      [] s = <<"a", "a", "b", ",">> -> <<3, 8, 1, 7, 5, 11, 6, 4>>
      [] s = <<"a", "a", ",", "a">> -> <<2, 7, 15, 0, 12, 13, 2, 12>>
      [] s = <<"a", "a", ",", "b">> -> <<4, 5, 2, 13, 6, 15, 2, 14>>
      [] s = <<"a", "a", ",", ",">> -> <<1, 14, 7, 13, 9, 4, 11, 2>>
      [] s = <<"a", "b", "a", "a">> -> <<15, 0, 2, 12, 11, 7, 7, 12>>
      [] s = <<"a", "b", "a", "b">> -> <<10, 6, 6, 7, 2, 8, 2, 6>>
      [] s = <<"a", "b", "a", ",">> -> <<8, 10, 6, 2, 13, 10, 6, 14>>
      [] s = <<"a", "b", "b", "a">> -> <<14, 2, 2, 1, 1, 5, 11, 5>>
      [] s = <<"a", "b", "b", "b">> -> <<0, 1, 13, 1, 6, 2, 10, 5>>
      [] s = <<"a", "b", "b", ",">> -> <<11, 0, 13, 0, 11, 0, 8, 3>>
      [] s = <<"a", "b", ",", "a">> -> <<12, 14, 8, 10, 12, 8, 0, 14>>
      [] s = <<"a", "b", ",", "b">> -> <<4, 8, 2, 7, 7, 11, 2, 7>>
      [] s = <<"a", "b", ",", ",">> -> <<11, 5, 15, 12, 10, 9, 12, 3>>
      [] s = <<"a", ",", "a", "a">> -> <<5, 11, 0, 8, 14, 15, 4, 8>>
      [] s = <<"a", ",", "a", "b">> -> <<14, 0, 8, 4, 15, 14, 5, 7>>
      [] s = <<"a", ",", "a", ",">> -> <<9, 6, 4, 11, 11, 0, 15, 15>>
      [] s = <<"a", ",", "b", "a">> -> <<7, 0, 8, 8, 6, 12, 10, 14>>
      [] s = <<"a", ",", "b", "b">> -> <<15, 12, 6, 2, 10, 3, 5, 13>>
      [] s = <<"a", ",", "b", ",">> -> <<7, 2, 4, 14, 3, 12, 15, 4>>
      [] s = <<"a", ",", ",", "a">> -> <<15, 2, 7, 7, 5, 7, 12, 15>>
      [] s = <<"a", ",", ",", "b">> -> <<10, 6, 11, 12, 13, 5, 9, 13>>
      [] s = <<"a", ",", ",", ",">> -> <<2, 9, 10, 13, 6, 3, 0, 6>>
      [] s = <<"b", "a", "a", "a">> -> <<10, 5, 6, 6, 10, 2, 8, 15>>
      [] s = <<"b", "a", "a", "b">> -> <<5, 4, 7, 7, 13, 3, 1, 9>>
      [] s = <<"b", "a", "a", ",">> -> <<2, 6, 0, 0, 6, 8, 12, 7>>
      [] s = <<"b", "a", "b", "a">> -> <<14, 7, 5, 10, 6, 12, 13, 4>>
      [] s = <<"b", "a", "b", "b">> -> <<3, 9, 2, 8, 0, 15, 11, 1>>
      [] s = <<"b", "a", "b", ",">> -> <<10, 3, 7, 10, 10, 9, 10, 11>>
      [] s = <<"b", "a", ",", "a">> -> <<12, 14, 7, 9, 14, 11, 8, 2>>
      [] s = <<"b", "a", ",", "b">> -> <<3, 4, 4, 5, 14, 15, 11, 0>>
      [] s = <<"b", "a", ",", ",">> -> <<14, 2, 3, 5, 5, 1, 6, 8>>
      [] s = <<"b", "b", "a", "a">> -> <<6, 0, 1, 0, 11, 9, 1, 7>>
      [] s = <<"b", "b", "a", "b">> -> <<2, 11, 12, 13, 0, 11, 14, 1>>
      [] s = <<"b", "b", "a", ",">> -> <<6, 11, 3, 15, 2, 7, 4, 9>>
      [] s = <<"b", "b", "b", "a">> -> <<9, 2, 7, 11, 7, 10, 11, 0>>
      [] s = <<"b", "b", "b", "b">> -> <<8, 1, 12, 12, 5, 11, 1, 7>>
      [] s = <<"b", "b", "b", ",">> -> <<1, 10, 8, 10, 5, 14, 1, 15>>
      [] s = <<"b", "b", ",", "a">> -> <<5, 7, 4, 8, 8, 10, 1, 11>>
      [] s = <<"b", "b", ",", "b">> -> <<9, 12, 5, 3, 12, 8, 3, 7>>
      [] s = <<"b", "b", ",", ",">> -> <<14, 3, 9, 11, 9, 10, 3, 11>>
      [] s = <<"b", ",", "a", "a">> -> <<8, 13, 6, 9, 8, 13, 12, 1>>
      [] s = <<"b", ",", "a", "b">> -> <<6, 12, 15, 1, 7, 13, 11, 15>>
      [] s = <<"b", ",", "a", ",">> -> <<10, 10, 7, 11, 7, 6, 3, 2>>
      [] s = <<"b", ",", "b", "a">> -> <<13, 7, 5, 7, 5, 15, 5, 0>>
      [] s = <<"b", ",", "b", "b">> -> <<12, 8, 10, 9, 4, 3, 4, 5>>
      [] s = <<"b", ",", "b", ",">> -> <<15, 15, 2, 4, 13, 3, 7, 15>>
      [] s = <<"b", ",", ",", "a">> -> <<11, 2, 1, 9, 2, 15, 13, 5>>
      [] s = <<"b", ",", ",", "b">> -> <<4, 11, 7, 6, 15, 2, 13, 2>>
      [] s = <<"b", ",", ",", ",">> -> <<4, 8, 4, 11, 15, 1, 11, 11>>
      [] s = <<",", "a", "a", "a">> -> <<1, 15, 8, 10, 5, 9, 13, 8>>
      [] s = <<",", "a", "a", "b">> -> <<3, 12, 13, 14, 0, 10, 6, 11>>
      [] s = <<",", "a", "a", ",">> -> <<12, 0, 15, 6, 1, 9, 1, 11>>
      [] s = <<",", "a", "b", "a">> -> <<13, 14, 2, 0, 0, 6, 9, 1>>
      [] s = <<",", "a", "b", "b">> -> <<13, 14, 15, 13, 6, 5, 8, 2>>
      [] s = <<",", "a", "b", ",">> -> <<6, 15, 10, 15, 8, 12, 1, 15>>
      [] s = <<",", "a", ",", "a">> -> <<7, 10, 12, 6, 4, 10, 15, 8>>
      [] s = <<",", "a", ",", "b">> -> <<0, 7, 7, 12, 14, 7, 15, 12>>
      [] s = <<",", "a", ",", ",">> -> <<15, 8, 0, 9, 2, 11, 11, 14>>
      [] s = <<",", "b", "a", "a">> -> <<0, 5, 2, 13, 14, 9, 1, 2>>
      [] s = <<",", "b", "a", "b">> -> <<7, 0, 15, 9, 6, 14, 0, 5>>
      [] s = <<",", "b", "a", ",">> -> <<0, 15, 11, 0, 6, 9, 6, 11>>
      [] s = <<",", "b", "b", "a">> -> <<13, 11, 9, 15, 9, 7, 1, 11>>
      [] s = <<",", "b", "b", "b">> -> <<12, 3, 9, 3, 14, 1, 9, 6>>
      [] s = <<",", "b", "b", ",">> -> <<6, 10, 3, 2, 7, 12, 5, 6>>
      [] s = <<",", "b", ",", "a">> -> <<12, 2, 0, 1, 11, 3, 0, 5>>
      [] s = <<",", "b", ",", "b">> -> <<7, 11, 13, 8, 1, 0, 8, 15>>
      [] s = <<",", "b", ",", ",">> -> <<12, 6, 2, 11, 8, 14, 14, 8>>
      [] s = <<",", ",", "a", "a">> -> <<3, 3, 8, 12, 9, 3, 8, 9>>
      [] s = <<",", ",", "a", "b">> -> <<5, 5, 9, 15, 11, 10, 9, 8>>
      [] s = <<",", ",", "a", ",">> -> <<11, 3, 1, 6, 9, 14, 9, 0>>
      [] s = <<",", ",", "b", "a">> -> <<1, 0, 3, 2, 10, 14, 6, 0>>
      [] s = <<",", ",", "b", "b">> -> <<5, 15, 10, 4, 9, 10, 3, 12>>
      [] s = <<",", ",", "b", ",">> -> <<3, 0, 6, 1, 9, 11, 5, 3>>
      [] s = <<",", ",", ",", "a">> -> <<2, 11, 2, 8, 11, 6, 9, 6>>
      [] s = <<",", ",", ",", "b">> -> <<9, 3, 15, 9, 9, 7, 13, 5>>
      [] s = <<",", ",", ",", ",">> -> <<0, 8, 3, 3, 5, 15, 4, 5>>

\* int(hex, 16) % 100000000, digit by digit so that no intermediate value
\* leaves the 32-bit range: (v * 16 + d) mod m at each digit.
RECURSIVE HexMod(_, _, _)
HexMod(digits, acc, m) ==
    IF digits = <<>> THEN acc
    ELSE HexMod(Tail(digits), (acc * 16 + Head(digits)) % m, m)

UriModulus == 100000000

\* ------------------------------------------------------------------------
\* generate_uri.py: generate_uri
\* ------------------------------------------------------------------------

\* The mutant drops the removal of commas.
gen_generate_uri_keeps_commas(input_string) ==
    LET s == Replace(Lower(input_string), " ")
    IN  <<"r", HexMod(Sha256Hex8(s), 0, UriModulus)>>

gen_generate_uri(input_string) ==
    LET s == Replace(Replace(Lower(input_string), " "), ",")
    IN  <<"r", HexMod(Sha256Hex8(s), 0, UriModulus)>>

\* xml_to_json.py: generate_uri
xml_generate_uri(input_string) ==
    LET s == Replace(Replace(Lower(input_string), " "), ",")
    IN  <<"r", HexMod(Sha256Hex8(s), 0, UriModulus)>>

\* xml_to_json.py: collect_terms_from_xml. An indexTerm element is the triple
\* of the texts of its main, midsub and sub children, "" (here <<>>) for a
\* child that is missing. The loop keeps the triples seen in unique_terms and
\* appends a triple to terms the first time it is seen.
CleanTerm(text) == IF text # <<>> THEN Strip(RemoveParens(text)) ELSE <<>>

RECURSIVE CollectLoop(_, _, _)
CollectLoop(indexTerms, terms, unique_terms) ==
    IF indexTerms = <<>> THEN terms
    ELSE LET index_term == Head(indexTerms)
             main_term   == Strip(RemoveParens(index_term[1]))
             midsub_term == CleanTerm(index_term[2])
             sub_term    == CleanTerm(index_term[3])
             term_tuple  == <<main_term, midsub_term, sub_term>>
         IN  IF term_tuple \notin unique_terms
             THEN CollectLoop(Tail(indexTerms),
                              Append(terms, [main |-> main_term,
                                             midsub |-> midsub_term,
                                             sub |-> sub_term]),
                              unique_terms \cup {term_tuple})
             ELSE CollectLoop(Tail(indexTerms), terms, unique_terms)

collect_terms_from_xml(indexTerms) == CollectLoop(indexTerms, <<>>, {})

\* xml_to_json.py: convert_name, "Last, First" to "First Last".
xml_convert_name(name) ==
    IF "," \in Range(name)
    THEN LET parts == Split(name, <<",", " ">>)
         IN  IF Len(parts) = 2 THEN parts[2] \o <<" ">> \o parts[1] ELSE name
    ELSE name

\* xml_to_json.py: normalize_term
xml_normalize_term(term) == Lower(Strip(CollapseSpace(term)))

\* Whether sub occurs in s: sub in s.
Contains(s, sub) == \E i \in 1..(Len(s) + 1) : MatchAt(s, sub, i)

\* str.replace(sub, ''): s without the occurrences of sub, found left to right.
RECURSIVE RemoveAllFrom(_, _, _)
RemoveAllFrom(s, sub, i) ==
    IF i > Len(s) THEN <<>>
    ELSE IF sub # <<>> /\ MatchAt(s, sub, i)
         THEN RemoveAllFrom(s, sub, i + Len(sub))
         ELSE <<s[i]>> \o RemoveAllFrom(s, sub, i + 1)

RemoveAll(s, sub) == RemoveAllFrom(s, sub, 1)

\* " ".join(list)
RECURSIVE JoinSpace(_)
JoinSpace(list) ==
    IF list = <<>> THEN <<>>
    ELSE IF Len(list) = 1 THEN Head(list)
         ELSE Head(list) \o <<" ">> \o JoinSpace(Tail(list))

\* json_classification.py: title_keywords
title_keywords ==
    << <<"B", "a", "r", "o", "n">>,
       <<"S", "i", "r">>,
       <<"D", "r", ".">>,
       <<"L", "o", "r", "d">>,
       <<"D", "a", "m", "e">>,
       <<"C", "o", "u", "n", "t">>,
       <<"C", "o", "u", "n", "t", "e", "s", "s">>,
       <<"K", "i", "n", "g">>,
       <<"Q", "u", "e", "e", "n">>,
       <<"P", "r", "i", "n", "c", "e">>,
       <<"P", "r", "i", "n", "c", "e", "s", "s">>,
       <<"D", "u", "k", "e">>,
       <<"D", "u", "c", "h", "e", "s", "s">>,
       <<"m", "a", "r", "q", "u", "i", "s">>,
       <<"m", "a", "r", "c", "h", "i", "o", "n", "e", "s", "s">>,
       <<"v", "o", "n">>,
       <<"d", "e">> >>

\* The loop over title_keywords of convert_name: st is the pair of titles and
\* first_name_and_titles.
RECURSIVE TitleLoop(_, _, _)
TitleLoop(keywords, titles, first_name_and_titles) ==
    IF keywords = <<>> THEN <<titles, first_name_and_titles>>
    ELSE IF Contains(first_name_and_titles, Head(keywords))
         THEN TitleLoop(Tail(keywords), Append(titles, Head(keywords)),
                        Strip(RemoveAll(first_name_and_titles, Head(keywords))))
         ELSE TitleLoop(Tail(keywords), titles, first_name_and_titles)

\* json_classification.py: convert_name, "Last, First" to "Title First Last".
jc_convert_name(name) ==
    IF "," \in Range(name)
    THEN LET parts == Split(name, <<",", " ">>)
         IN  IF Len(parts) = 2
             THEN LET last_name == parts[1]
                      st == TitleLoop(title_keywords, <<>>, parts[2])
                      title_str == JoinSpace(st[1])
                      first_name_and_titles == st[2]
                  IN  IF title_str # <<>>
                      THEN title_str \o <<" ">> \o first_name_and_titles
                               \o <<" ", "d", "e", " ">> \o last_name
                      ELSE first_name_and_titles \o <<" ">> \o last_name
             ELSE name
    ELSE name

\* re.sub(r'\s\s', ' ', s): every pair of whitespace characters becomes one
\* space.
RECURSIVE CollapsePairs(_)
CollapsePairs(s) ==
    IF s = <<>> THEN <<>>
    ELSE IF Len(s) >= 2 /\ IsSpace(s[1]) /\ IsSpace(s[2])
         THEN <<" ">> \o CollapsePairs(Tail(Tail(s)))
         ELSE <<Head(s)>> \o CollapsePairs(Tail(s))

\* As normalize_term, but collapsing whitespace pair by pair.
jc_normalize_term_by_pairs(term) == Lower(Strip(CollapsePairs(term)))

\* json_classification.py: normalize_term
jc_normalize_term(term) == Lower(Strip(CollapseSpace(term)))

\* ------------------------------------------------------------------------
\* Python dict and list primitives
\* ------------------------------------------------------------------------

\* d[k] = v
DictSet(d, k, v) == [x \in DOMAIN d \cup {k} |-> IF x = k THEN v ELSE d[x]]

\* d.update(e)
DictUpdate(d, e) ==
    [x \in DOMAIN d \cup DOMAIN e |-> IF x \in DOMAIN e THEN e[x] ELSE d[x]]

\* d.get(k, default)
DictGet(d, k, default) == IF k \in DOMAIN d THEN d[k] ELSE default

EmptyDict == <<>>

\* obj[name] = value
SetField(obj, name, value) ==
    [f \in DOMAIN obj \cup {name} |-> IF f = name THEN value ELSE obj[f]]

\* list.remove(x): the list without its first element equal to x.
RECURSIVE ListRemove(_, _)
ListRemove(list, x) ==
    IF list = <<>> THEN <<>>
    ELSE IF Head(list) = x THEN Tail(list)
         ELSE <<Head(list)>> \o ListRemove(Tail(list), x)

\* list[i:i+n] with i counted from 0.
Slice(list, i, n) ==
    SubSeq(list, i + 1, IF i + n < Len(list) THEN i + n ELSE Len(list))

\* str.lower() of a classification label.
LabelLower(label) ==
    CASE label = "PERSON" -> "person"
      [] label = "GPE" -> "gpe"
      [] label = "ORG" -> "org"
      [] label = "TERM" -> "term"
      [] label = "PLACE" -> "place"
      [] label = "ORGANIZATION" -> "organization"
      [] label = "MISC" -> "misc"
      [] label = "Unknown" -> "unknown"
      [] OTHER -> label

\* ------------------------------------------------------------------------
\* State
\* ------------------------------------------------------------------------

\* The text functions called on their own.
VARIABLES
    fnArg,      \* the argument of the call
    fnPc,       \* "ready", then the name of the function called
    fnRes       \* what the call returned

fnVars == <<fnArg, fnPc, fnRes>>

\* One run of xml_to_json.py.
VARIABLES
    xml_root,               \* the document elements of the XML file
    xml_batch_size,         \* batch_size
    xml_known_entities,     \* known_entities: normalized name -> label
    xml_documents,          \* documents
    xml_all_terms,          \* all_terms
    xml_terms_to_classify,  \* terms_to_classify, the terms of classify_terms
    xml_term_to_label,      \* term_to_label
    xml_i,                  \* i, the start of the current batch
    xml_batch_terms,        \* batch_terms of the request awaiting its response
    xml_response,           \* the kind of the last response read
    xml_doc,                \* number of documents the current pass has done
    xml_pc                  \* where the run is

xmlVars == <<xml_root, xml_batch_size, xml_known_entities, xml_documents,
             xml_all_terms, xml_terms_to_classify, xml_term_to_label, xml_i,
             xml_batch_terms, xml_response, xml_doc, xml_pc>>

\* One run of json_classification.py on one JSON file.
VARIABLES
    jc_file,            \* the documents of the JSON file as loaded
    jc_json_data,       \* json_data['documents'], updated in place
    jc_known_entities,  \* known_entities: normalized name -> label
    jc_terms,           \* list(terms_to_classify), the terms of classify_terms
    jc_tasks,           \* tasks: the custom_id index and content of each
    jc_status,          \* batch_job.status as last retrieved
    jc_output,          \* output_dict: custom_id index -> classification
    jc_term_to_label,   \* term_to_label, the matched data returned
    jc_pc               \* where the run is

jcVars == <<jc_file, jc_json_data, jc_known_entities, jc_terms, jc_tasks,
            jc_status, jc_output, jc_term_to_label, jc_pc>>

\* One run of generate_uri.py on one JSON file.
VARIABLES
    uri_json_data,  \* json_data['documents'], updated in place
    uri_work,       \* the term objects of the file in the order they are visited
    uri_pos,        \* number of term objects done
    uri_attempt,    \* attempts of query_viaf_cluster made for the current object
    uri_pc          \* where the run is

uriVars == <<uri_json_data, uri_work, uri_pos, uri_attempt, uri_pc>>

\* One call of run_pipeline.
VARIABLES
    pipe_test_mode,  \* test_mode of the configuration
    pipe_files,      \* for each submitted file, the stage and status of its pipeline
    pipe_future,     \* number of futures whose result the caller has collected
    pipe_pc,         \* where run_pipeline is
    pipe_answer,     \* how the prompts of xml_to_json.py are answered
    pipe_written     \* the paths written so far, each with the file whose stage wrote it

pipeVars ==
    <<pipe_test_mode, pipe_files, pipe_future, pipe_pc, pipe_answer,
      pipe_written>>

\* One call of import_data of json_to_db.py.
VARIABLES
    db_json_data,  \* json_data['documents']
    db_writes,     \* the writes import_data issues, in order
    db_pos,        \* number of writes executed
    db_nodes,      \* the nodes of the graph
    db_rels        \* the relationships of the graph

dbVars == <<db_json_data, db_writes, db_pos, db_nodes, db_rels>>

vars == <<fnVars, xmlVars, jcVars, uriVars, pipeVars, dbVars>>

FnIdle ==
    /\ fnArg = None
    /\ fnPc = "idle"
    /\ fnRes = None

XmlIdle ==
    /\ xml_root = <<>>
    /\ xml_batch_size = 0
    /\ xml_known_entities = EmptyDict
    /\ xml_documents = <<>>
    /\ xml_all_terms = <<>>
    /\ xml_terms_to_classify = <<>>
    /\ xml_term_to_label = EmptyDict
    /\ xml_i = 0
    /\ xml_batch_terms = <<>>
    /\ xml_response = None
    /\ xml_doc = 0
    /\ xml_pc = "idle"

JcIdle ==
    /\ jc_file = <<>>
    /\ jc_json_data = <<>>
    /\ jc_known_entities = EmptyDict
    /\ jc_terms = <<>>
    /\ jc_tasks = <<>>
    /\ jc_status = None
    /\ jc_output = EmptyDict
    /\ jc_term_to_label = <<>>
    /\ jc_pc = "idle"

UriIdle ==
    /\ uri_json_data = <<>>
    /\ uri_work = <<>>
    /\ uri_pos = 0
    /\ uri_attempt = 0
    /\ uri_pc = "idle"

PipeIdle ==
    /\ pipe_test_mode = FALSE
    /\ pipe_files = <<>>
    /\ pipe_future = 0
    /\ pipe_pc = "idle"
    /\ pipe_answer = "y"
    /\ pipe_written = {}

DbIdle ==
    /\ db_json_data = <<>>
    /\ db_writes = <<>>
    /\ db_pos = 0
    /\ db_nodes = {}
    /\ db_rels = {}

\* All sequences over alphabet of length at most n.
StringsUpTo(alphabet, n) == UNION {[1..k -> alphabet] : k \in 0..n}

\* ------------------------------------------------------------------------
\* VIAF answers and process_viaf_response
\* ------------------------------------------------------------------------

\* A JSON value that may be null is a sequence: <<>> for null, <<v>> for v.
Null == <<>>

Some(v) == <<v>>

\* The records of a VIAF answer: viafid, lcid and dates may be null.
ViafRecords ==
    { [viafid |-> Some("v1"), lcid |-> Some("l1"), term |-> Some("t1"),
       dates |-> Null],
      [viafid |-> Some("v2"), lcid |-> Null, term |-> Some("t2"),
       dates |-> Some(<<"1", "7", "0", "0", "-">>)],
      [viafid |-> Some("v3"), lcid |-> Some("l3"), term |-> Null,
       dates |-> Some(<<"1", "6", "0", "0">>)] }

\* What query_viaf_cluster returns: an object with or without a 'result'
\* key, whose value is null or a list of records.
ViafResponses ==
    [has_result : BOOLEAN,
     result : UNION {[1..n -> ViafRecords] : n \in 0..MaxViafRecords}]

\* The document dates handed to process_viaf_response: '' and '1700'.
ViafDocumentDates == { <<>>, <<"1", "7", "0", "0">> }

ViafInputs == [response : ViafResponses, document_date : ViafDocumentDates]

\* stop_after_attempt(5)
ViafAttempts == 5

\* The order of the characters of a year.
CharRank(c) ==
    CASE c = "-" -> 45
      [] c = "0" -> 48
      [] c = "1" -> 49
      [] c = "6" -> 54
      [] c = "7" -> 55

\* a < b for two str
RECURSIVE StrLess(_, _)
StrLess(a, b) ==
    IF b = <<>> THEN FALSE
    ELSE IF a = <<>> THEN TRUE
    ELSE IF Head(a) = Head(b) THEN StrLess(Tail(a), Tail(b))
    ELSE CharRank(Head(a)) < CharRank(Head(b))

\* The loop of process_viaf_response over response['result'].
RECURSIVE ViafCandidates(_, _)
ViafCandidates(result, document_date) ==
    IF result = <<>> THEN <<>>
    ELSE LET record == Head(result)
             record_year == record.dates
             skipped ==
                 /\ document_date # <<>>
                 /\ record_year # Null
                 /\ record_year[1] # <<>>
                 /\ ~Contains(record_year[1], document_date)
             rest == ViafCandidates(Tail(result), document_date)
         IN  IF skipped THEN rest
             ELSE <<[viaf |-> record.viafid, lc |-> record.lcid,
                     name |-> record.term, year |-> record_year]>> \o rest

\* sorted(candidates, key=...)[0] for candidates whose years are all str:
\* the first of those of the least year.
FirstOfLeastYear(candidates) ==
    LET least(i) ==
            \A j \in 1..Len(candidates) :
                ~StrLess(candidates[j].year[1], candidates[i].year[1])
        first == CHOOSE i \in 1..Len(candidates) :
                     least(i) /\ \A j \in 1..(i - 1) : ~least(j)
    IN  candidates[first]

\* generate_uri.py: process_viaf_response. The sort key of a null year is
\* float('inf'), which Python does not compare with the str of another record.
process_viaf_response(response, document_date) ==
    IF response.has_result /\ response.result # <<>>
    THEN LET candidates == ViafCandidates(response.result, document_date)
             nulls == {i \in 1..Len(candidates) : candidates[i].year = Null}
         IN  IF candidates = <<>>
             THEN [raised |-> FALSE, value |-> Null]
             ELSE IF nulls = {}
             THEN [raised |-> FALSE, value |-> Some(FirstOfLeastYear(candidates))]
             ELSE IF Cardinality(nulls) = Len(candidates)
             THEN [raised |-> FALSE, value |-> Some(candidates[1])]
             ELSE [raised |-> TRUE, value |-> Null]
    ELSE [raised |-> FALSE, value |-> Null]

\* generate_uri.py: add_viaf_uris once query_viaf_cluster has returned.
add_viaf_uris(term_obj, viaf_response, document_date) ==
    IF viaf_response.has_result
    THEN LET viaf_record == process_viaf_response(viaf_response, document_date)
         IN  IF viaf_record.raised
             THEN [raised |-> TRUE, value |-> term_obj]
             ELSE IF viaf_record.value # Null /\ viaf_record.value[1].viaf # Null
             THEN [raised |-> FALSE,
                   value |-> SetField(SetField(term_obj, "viaf",
                                               viaf_record.value[1].viaf[1]),
                                      "lc", viaf_record.value[1].lc)]
             ELSE [raised |-> FALSE, value |-> term_obj]
    ELSE [raised |-> FALSE, value |-> term_obj]

\* ------------------------------------------------------------------------
\* The text functions called on their own
\* ------------------------------------------------------------------------

NameAlphabet == {"a", "b", "A", " ", ","}

NameInputs == StringsUpTo(NameAlphabet, MaxNameLen)

\* Texts of main children: "a b", "a  b", "a (b) b", " a b".
RawMains ==
    { <<"a", " ", "b">>,
      <<"a", " ", " ", "b">>,
      <<"a", " ", "(", "b", ")", " ", "b">>,
      <<" ", "a", " ", "b">> }

\* Texts of midsub children: missing, "b".
RawMidsubs == { <<>>, <<"b">> }

\* Texts of sub children: missing, "(a)".
RawSubs == { <<>>, <<"(", "a", ")">> }

RawIndexTerms == RawMains \X RawMidsubs \X RawSubs

IndexInputs == UNION {[1..k -> RawIndexTerms] : k \in 1..MaxIndexTerms}

TermAlphabet == {"a", "A", " ", "\t"}

TermInputs == StringsUpTo(TermAlphabet, MaxTermLen)

\* The argument is a name, the indexTerm elements of one document, a VIAF
\* response with a document date, or a term.
FnInit ==
    /\ fnArg \in [kind : {"name"}, value : NameInputs]
                 \cup [kind : {"indexing"}, value : IndexInputs]
                 \cup [kind : {"viaf"}, value : ViafInputs]
                 \cup [kind : {"term"}, value : TermInputs]
    /\ fnPc = "ready"
    /\ fnRes = None
    /\ XmlIdle
    /\ JcIdle
    /\ UriIdle
    /\ PipeIdle
    /\ DbIdle

\* generate_uri(name), by the copy of generate_uri.py and by that of xml_to_json.py.
CallGenerateUri ==
    /\ fnPc = "ready"
    /\ fnArg.kind = "name"
    /\ fnPc' = "generate_uri"
    /\ fnRes' = [gen |-> gen_generate_uri(fnArg.value),
                 xml |-> xml_generate_uri(fnArg.value)]
    /\ UNCHANGED <<fnArg, xmlVars, jcVars, uriVars, pipeVars, dbVars>>

\* collect_terms_from_xml(document)
CallCollectTerms ==
    /\ fnPc = "ready"
    /\ fnArg.kind = "indexing"
    /\ fnPc' = "collect_terms_from_xml"
    /\ fnRes' = collect_terms_from_xml(fnArg.value)
    /\ UNCHANGED <<fnArg, xmlVars, jcVars, uriVars, pipeVars, dbVars>>

\* process_viaf_response(response, document_date)
CallProcessViafResponse ==
    /\ fnPc = "ready"
    /\ fnArg.kind = "viaf"
    /\ fnPc' = "process_viaf_response"
    /\ fnRes' = process_viaf_response(fnArg.value.response,
                                      fnArg.value.document_date)
    /\ UNCHANGED <<fnArg, xmlVars, jcVars, uriVars, pipeVars, dbVars>>

\* normalize_term(term), by the copy of json_classification.py and by that
\* of xml_to_json.py.
CallNormalizeTerm ==
    /\ fnPc = "ready"
    /\ fnArg.kind = "term"
    /\ fnPc' = "normalize_term"
    /\ fnRes' = [jc |-> jc_normalize_term(fnArg.value),
                 xml |-> xml_normalize_term(fnArg.value)]
    /\ UNCHANGED <<fnArg, xmlVars, jcVars, uriVars, pipeVars, dbVars>>

FnNext ==
    \/ CallGenerateUri
    \/ CallCollectTerms
    \/ CallProcessViafResponse
    \/ CallNormalizeTerm

SpecFn == FnInit /\ [][FnNext]_vars

\* ------------------------------------------------------------------------
\* xml_to_json.py: parse_xml_to_json and classify_terms
\* ------------------------------------------------------------------------

\* The XML file: one to MaxDocs document elements. A document has at most one
\* author "b, a", one recipient "a, b", an optional placeName "a" and at most
\* one indexTerm, whose children are among "b, a" and "A". The other
\* children of a document (documentID, documentTitle, projectInfo, dates,
\* repositories) are copied to the output unread and are left out, as is
\* word_count, a tally that is only printed.
XmlAuthorLists == { <<>>, << <<"b", ",", " ", "a">> >> }

XmlRecipientLists == { << <<"a", ",", " ", "b">> >> }

XmlLocations == { None, <<"a">> }

XmlIndexTerms ==
    { << <<"b", ",", " ", "a">>, <<"A">>, <<>> >>,
      << <<"A">>, <<>>, <<"b", ",", " ", "a">> >> }

XmlIndexLists == { <<>> } \cup { <<t>> : t \in XmlIndexTerms }

XmlDocumentElements ==
    [authors : XmlAuthorLists, recipients : XmlRecipientLists,
     location : XmlLocations, indexing : XmlIndexLists]

XmlInit ==
    /\ xml_root \in UNION {[1..n -> XmlDocumentElements] : n \in 1..MaxDocs}
    /\ xml_batch_size \in 1..MaxBatchSize
    /\ xml_known_entities = EmptyDict
    /\ xml_documents = <<>>
    /\ xml_all_terms = <<>>
    /\ xml_terms_to_classify = <<>>
    /\ xml_term_to_label = EmptyDict
    /\ xml_i = 0
    /\ xml_batch_terms = <<>>
    /\ xml_response = None
    /\ xml_doc = 0
    /\ xml_pc = "first_pass"
    /\ FnIdle
    /\ JcIdle
    /\ UriIdle
    /\ PipeIdle
    /\ DbIdle

\* known_entities[normalize_term(name)] = 'PERSON' for each name of the list.
RECURSIVE SeedPersons(_, _)
SeedPersons(known, names) ==
    IF names = <<>> THEN known
    ELSE SeedPersons(DictSet(known, xml_normalize_term(Head(names)), "PERSON"),
                     Tail(names))

\* The author or recipient list: the uri is that of the source text, the name
\* is then converted.
XmlPersons(names) ==
    [k \in 1..Len(names) |->
        [name |-> xml_convert_name(names[k]), uri |-> xml_generate_uri(names[k])]]

\* One iteration of the first pass of parse_xml_to_json.
XmlParseDocument ==
    /\ xml_pc = "first_pass"
    /\ xml_doc < Len(xml_root)
    /\ LET document == xml_root[xml_doc + 1]
           location_name ==
               IF document.location # None THEN Strip(document.location) ELSE None
           seeded == SeedPersons(SeedPersons(xml_known_entities, document.authors),
                                 document.recipients)
           terms == collect_terms_from_xml(document.indexing)
           doc == [authors |-> XmlPersons(document.authors),
                   recipients |-> XmlPersons(document.recipients),
                   location |->
                       IF document.location # None
                       THEN [name |-> location_name,
                             uri |-> xml_generate_uri(location_name)]
                       ELSE None,
                   indexing |-> collect_terms_from_xml(document.indexing)]
       IN  /\ xml_known_entities' =
                  IF document.location # None
                  THEN DictSet(seeded, xml_normalize_term(location_name), "GPE")
                  ELSE seeded
           /\ xml_all_terms' = xml_all_terms \o terms
           /\ xml_documents' = Append(xml_documents, doc)
    /\ xml_doc' = xml_doc + 1
    /\ UNCHANGED <<xml_root, xml_batch_size, xml_terms_to_classify,
                   xml_term_to_label, xml_i, xml_batch_terms, xml_response,
                   xml_pc, fnVars, jcVars, uriVars, pipeVars, dbVars>>

\* The values of each term group, in the order main, midsub, sub, that are not
\* empty and whose normalized form is not a known entity.
RECURSIVE FilterLoop(_, _)
FilterLoop(all_terms, known) ==
    IF all_terms = <<>> THEN <<>>
    ELSE LET term_group == Head(all_terms)
             values == <<term_group.main, term_group.midsub, term_group.sub>>
         IN  SelectSeq(values,
                       LAMBDA term_value :
                           /\ term_value # <<>>
                           /\ xml_normalize_term(term_value) \notin DOMAIN known)
                 \o FilterLoop(Tail(all_terms), known)

\* After the first pass: terms_to_classify is built and classify_terms entered.
XmlFilterTerms ==
    /\ xml_pc = "first_pass"
    /\ xml_doc = Len(xml_root)
    /\ xml_terms_to_classify' = FilterLoop(xml_all_terms, xml_known_entities)
    /\ xml_i' = 0
    /\ xml_pc' = "classify"
    /\ UNCHANGED <<xml_root, xml_batch_size, xml_known_entities, xml_documents,
                   xml_all_terms, xml_term_to_label, xml_batch_terms,
                   xml_response, xml_doc, fnVars, jcVars, uriVars, pipeVars, dbVars>>

\* "Remove known entities from the batch": the for loop over batch_terms that
\* removes from the list it iterates. The iterator reads position idx of the
\* list as it then is, and list.remove drops the first equal element.
RECURSIVE RemoveKnownLoop(_, _, _)
RemoveKnownLoop(batch_terms, idx, known) ==
    IF idx > Len(batch_terms) THEN batch_terms
    ELSE LET term == batch_terms[idx]
         IN  IF xml_normalize_term(term) \in DOMAIN known
             THEN RemoveKnownLoop(ListRemove(batch_terms, term), idx + 1, known)
             ELSE RemoveKnownLoop(batch_terms, idx + 1, known)

\* The head of one iteration of classify_terms' loop, up to the request.
XmlSendBatch ==
    /\ xml_pc = "classify"
    /\ xml_i < Len(xml_terms_to_classify)
    /\ xml_batch_terms' =
           RemoveKnownLoop(Slice(xml_terms_to_classify, xml_i, xml_batch_size),
                           1, xml_known_entities)
    /\ xml_pc' = "awaiting"
    /\ UNCHANGED <<xml_root, xml_batch_size, xml_known_entities, xml_documents,
                   xml_all_terms, xml_terms_to_classify, xml_term_to_label,
                   xml_i, xml_response, xml_doc, fnVars, jcVars, uriVars, pipeVars, dbVars>>

\* Labels the classifier answers with: the four of the prompt, and others.
XmlLabels == {"PERSON", "GPE", "ORG", "TERM", "PLACE", "person", "MISC"}

XmlEntityLabels == {"PERSON", "GPE", "ORG"}

\* Terms of the items of a response: the terms asked about, as sent or lowercased.
ResponseTerms(batch_terms) ==
    Range(batch_terms) \cup {Lower(t) : t \in Range(batch_terms)}

\* What response.choices[0].message.content can be: text that is not JSON, a
\* JSON value that is not an object, an object whose "terms" is not a list, a
\* list with an item that lacks 'term' or 'classification', or a list of
\* complete items, given as the dict {item['term']: item['classification']}.
XmlResponses(batch_terms) ==
    [kind : {"not_json", "not_object", "terms_not_list", "item_missing_key"},
     labels : {EmptyDict}]
    \cup [kind : {"items"},
          labels : UNION {[D -> XmlLabels] : D \in SUBSET ResponseTerms(batch_terms)}]

\* known_entities after the loop over batch_term_to_label.items(): each term
\* labelled PERSON, GPE or ORG sets its normalized key; of several terms with
\* one key the last in the response's order stays, and the order is the
\* classifier's.
RegisteredEntities(known, labels) ==
    LET entities == {t \in DOMAIN labels : labels[t] \in XmlEntityLabels}
        keys == {xml_normalize_term(t) : t \in entities}
    IN  { DictUpdate(known, last) :
            last \in { g \in [keys -> XmlEntityLabels] :
                         \A k \in keys :
                             \E t \in entities :
                                 xml_normalize_term(t) = k /\ labels[t] = g[k] } }

\* The rest of the iteration: the response is parsed. json.JSONDecodeError and
\* ValueError are caught; the AttributeError of response_data.get on a value
\* that is no dict and the KeyError of item['term'] are not, and end the run.
XmlReceiveResponse ==
    /\ xml_pc = "awaiting"
    /\ \E response \in XmlResponses(xml_batch_terms) :
          /\ xml_response' = response.kind
          /\ CASE response.kind \in {"not_json", "terms_not_list"} ->
                    /\ xml_pc' = "classify"
                    /\ xml_i' = xml_i + xml_batch_size
                    /\ UNCHANGED <<xml_term_to_label, xml_known_entities>>
               [] response.kind \in {"not_object", "item_missing_key"} ->
                    /\ xml_pc' = "raised"
                    /\ UNCHANGED <<xml_i, xml_term_to_label, xml_known_entities>>
               [] response.kind = "items" ->
                    /\ xml_term_to_label' =
                           DictUpdate(xml_term_to_label, response.labels)
                    /\ xml_known_entities' \in
                           RegisteredEntities(xml_known_entities, response.labels)
                    /\ xml_pc' = "classify"
                    /\ xml_i' = xml_i + xml_batch_size
    /\ UNCHANGED <<xml_root, xml_batch_size, xml_documents, xml_all_terms,
                   xml_terms_to_classify, xml_batch_terms, xml_doc, fnVars, jcVars, uriVars, pipeVars, dbVars>>

\* classify_terms returns after its last batch.
XmlReturnLabels ==
    /\ xml_pc = "classify"
    /\ xml_i >= Len(xml_terms_to_classify)
    /\ xml_pc' = "second_pass"
    /\ xml_doc' = 0
    /\ UNCHANGED <<xml_root, xml_batch_size, xml_known_entities, xml_documents,
                   xml_all_terms, xml_terms_to_classify, xml_term_to_label,
                   xml_i, xml_batch_terms, xml_response, fnVars, jcVars, uriVars, pipeVars, dbVars>>

\* known_entities.get(normalize_term(term)) or term_to_label.get(term, 'TERM')
XmlLabelOf(term, known, term_to_label) ==
    IF xml_normalize_term(term) \in DOMAIN known
    THEN known[xml_normalize_term(term)]
    ELSE DictGet(term_to_label, term, "TERM")

\* "Create main term objects"
XmlMainTermObj(main_term, main_label) ==
    CASE main_label = "PERSON" ->
             [term |-> xml_convert_name(main_term),
              uri |-> xml_generate_uri(main_term), type |-> "person"]
      [] main_label = "GPE" ->
             [term |-> main_term, uri |-> xml_generate_uri(main_term),
              type |-> "place"]
      [] main_label = "ORG" ->
             [term |-> main_term, uri |-> xml_generate_uri(main_term),
              type |-> "organization"]
      [] OTHER -> [term |-> main_term, type |-> "term"]

\* "Create midsub term objects" and "Create sub term objects": the same code
\* twice, whose last branch takes the type from the label.
XmlNestedTermObj(nested_term, nested_label) ==
    CASE nested_label = "PERSON" ->
             [term |-> xml_convert_name(nested_term),
              uri |-> xml_generate_uri(nested_term), type |-> "person"]
      [] nested_label = "GPE" ->
             [term |-> nested_term, uri |-> xml_generate_uri(nested_term),
              type |-> "place"]
      [] nested_label = "ORG" ->
             [term |-> nested_term, uri |-> xml_generate_uri(nested_term),
              type |-> "organization"]
      [] OTHER -> [term |-> nested_term, type |-> LabelLower(nested_label)]

\* The body of the second pass for one term group.
XmlIndexEntry(term, known, term_to_label) ==
    LET main_term == term.main
        midsub_term == term.midsub
        sub_term == term.sub
        main_label == XmlLabelOf(main_term, known, term_to_label)
        midsub_label ==
            IF midsub_term # <<>>
            THEN XmlLabelOf(midsub_term, known, term_to_label) ELSE "TERM"
        sub_label ==
            IF sub_term # <<>>
            THEN XmlLabelOf(sub_term, known, term_to_label) ELSE "TERM"
        main_term_obj == XmlMainTermObj(main_term, main_label)
        with_midsub ==
            IF midsub_term # <<>>
            THEN SetField(main_term_obj, "midsub",
                          XmlNestedTermObj(midsub_term, midsub_label))
            ELSE main_term_obj
    IN  IF sub_term # <<>>
        THEN SetField(with_midsub, "sub", XmlNestedTermObj(sub_term, sub_label))
        ELSE with_midsub

\* One iteration of the second pass of parse_xml_to_json.
XmlAssembleDocument ==
    /\ xml_pc = "second_pass"
    /\ xml_doc < Len(xml_documents)
    /\ LET terms == xml_documents[xml_doc + 1].indexing
       IN  xml_documents' =
               [xml_documents EXCEPT ![xml_doc + 1].indexing =
                    [k \in 1..Len(terms) |->
                        XmlIndexEntry(terms[k], xml_known_entities,
                                      xml_term_to_label)]]
    /\ xml_doc' = xml_doc + 1
    /\ UNCHANGED <<xml_root, xml_batch_size, xml_known_entities, xml_all_terms,
                   xml_terms_to_classify, xml_term_to_label, xml_i,
                   xml_batch_terms, xml_response, xml_pc, fnVars, jcVars, uriVars, pipeVars, dbVars>>

\* parse_xml_to_json returns json_data, the documents.
XmlReturnJson ==
    /\ xml_pc = "second_pass"
    /\ xml_doc = Len(xml_documents)
    /\ xml_pc' = "done"
    /\ UNCHANGED <<xml_root, xml_batch_size, xml_known_entities, xml_documents,
                   xml_all_terms, xml_terms_to_classify, xml_term_to_label,
                   xml_i, xml_batch_terms, xml_response, xml_doc, fnVars, jcVars, uriVars, pipeVars, dbVars>>

XmlNext ==
    \/ XmlParseDocument
    \/ XmlFilterTerms
    \/ XmlSendBatch
    \/ XmlReceiveResponse
    \/ XmlReturnLabels
    \/ XmlAssembleDocument
    \/ XmlReturnJson

SpecXml == XmlInit /\ [][XmlNext]_vars

\* ------------------------------------------------------------------------
\* json_classification.py
\* ------------------------------------------------------------------------

\* The JSON files given to the run: documents whose authors and recipients
\* are written "Last, First" and whose index terms hold the three texts
\* main, midsub and sub, "" for a text that is absent.
\*   names: "b, a", "a, b", "a"     terms: "b, a", "A", "a"
JcAuthorLists == { <<>>, << [name |-> <<"b", ",", " ", "a">>] >> }

JcRecipientLists == { <<>>, << [name |-> <<"a", ",", " ", "b">>] >> }

\* location: <<>> for null, else the one object.
JcLocations == { <<>>, << [name |-> <<"a">>] >> }

JcIndexLists ==
    { <<>>,
      << [main |-> <<"A">>, midsub |-> <<>>, sub |-> <<>>] >>,
      << [main |-> <<"A">>, midsub |-> <<"b", ",", " ", "a">>, sub |-> <<>>] >>,
      << [main |-> <<"b", ",", " ", "a">>, midsub |-> <<>>, sub |-> <<"a">>] >>,
      << [main |-> <<"b">>, midsub |-> <<"A">>, sub |-> <<"a">>] >> }

JcDocuments ==
    [authors : JcAuthorLists, recipients : JcRecipientLists,
     location : JcLocations, indexing : JcIndexLists]

\* What the API answers for a term.
JcLabels == {"PERSON", "PLACE", "TERM"}

\* batch_job.status as the API reports it.
JcStatuses == {"in_progress", "completed", "failed", "expired", "cancelled"}

\* The statuses a batch job does not leave once it has one of them.
JcFinalStatuses == {"completed", "failed", "expired", "cancelled"}

\* The lists a set can be turned into by list(set).
Orderings(S) ==
    {f \in [1..Cardinality(S) -> S] :
        \A i, j \in 1..Cardinality(S) : i # j => f[i] # f[j]}

JcInit ==
    /\ jc_file \in UNION {[1..n -> JcDocuments] : n \in 1..MaxJcDocs}
    /\ jc_json_data = jc_file
    /\ jc_known_entities = EmptyDict
    /\ jc_terms = <<>>
    /\ jc_tasks = <<>>
    /\ jc_status = None
    /\ jc_output = EmptyDict
    /\ jc_term_to_label = <<>>
    /\ jc_pc = "loaded"
    /\ FnIdle
    /\ XmlIdle
    /\ UriIdle
    /\ PipeIdle
    /\ DbIdle

\* known_entities[normalize_term(p['name'])] = 'person' for each p of the list.
RECURSIVE JcSeedPersons(_, _)
JcSeedPersons(known, persons) ==
    IF persons = <<>> THEN known
    ELSE JcSeedPersons(
             DictSet(known, jc_normalize_term(Head(persons).name), "person"),
             Tail(persons))

\* "Initial pass to populate known entities"
RECURSIVE JcSeedKnown(_, _)
JcSeedKnown(known, documents) ==
    IF documents = <<>> THEN known
    ELSE LET document == Head(documents)
             with_authors == JcSeedPersons(known, document.authors)
             with_recipients == JcSeedPersons(with_authors, document.recipients)
             with_location ==
                 IF document.location # <<>>
                 THEN DictSet(with_recipients,
                              jc_normalize_term(document.location[1].name),
                              "place")
                 ELSE with_recipients
         IN  JcSeedKnown(with_location, Tail(documents))

\* "Extract terms to classify": the set terms_to_classify.
JcTermSet(documents) ==
    UNION { UNION { {documents[d].indexing[k].main,
                     documents[d].indexing[k].midsub,
                     documents[d].indexing[k].sub}
                    : k \in 1..Len(documents[d].indexing) }
            : d \in 1..Len(documents) }

\* The start of the script, up to the call of classify_terms: the known
\* entities are seeded and the set of terms is made a list, in any order.
JcExtractTerms ==
    /\ jc_pc = "loaded"
    /\ jc_known_entities' = JcSeedKnown(jc_known_entities, jc_json_data)
    /\ jc_terms' \in Orderings(JcTermSet(jc_json_data))
    /\ jc_pc' = "classify"
    /\ UNCHANGED <<jc_file, jc_json_data, jc_tasks, jc_status, jc_output,
                   jc_term_to_label, fnVars, xmlVars, uriVars, pipeVars, dbVars>>

\* The loop of classify_terms that accumulates the tasks; index counts from 0.
RECURSIVE JcTaskLoop(_, _, _)
JcTaskLoop(terms, index, known) ==
    IF index >= Len(terms) THEN <<>>
    ELSE IF jc_normalize_term(terms[index + 1]) \in DOMAIN known
         THEN JcTaskLoop(terms, index + 1, known)
         ELSE <<[custom_id |-> index, content |-> terms[index + 1]]>>
                  \o JcTaskLoop(terms, index + 1, known)

\* classify_terms up to the upload of the batch file.
JcWriteTasks ==
    /\ jc_pc = "classify"
    /\ jc_tasks' = JcTaskLoop(jc_terms, 0, jc_known_entities)
    /\ jc_pc' = "create_batch"
    /\ UNCHANGED <<jc_file, jc_json_data, jc_known_entities, jc_terms,
                   jc_status, jc_output, jc_term_to_label, fnVars, xmlVars,
                   uriVars, pipeVars, dbVars>>

\* "Creating batch job": when the call raises, classify_terms returns None and
\* the script fails to unpack it.
JcCreateBatch ==
    /\ jc_pc = "create_batch"
    /\ \E created \in BOOLEAN :
           jc_pc' = IF created THEN "polling" ELSE "raised"
    /\ UNCHANGED <<jc_file, jc_json_data, jc_known_entities, jc_terms,
                   jc_tasks, jc_status, jc_output, jc_term_to_label, fnVars,
                   xmlVars, uriVars, pipeVars, dbVars>>

\* One round of the loop under "Await response", up to the sleep.
JcPoll ==
    /\ jc_pc = "polling"
    /\ \E status \in JcStatuses :
           /\ jc_status \in JcFinalStatuses => status = jc_status
           /\ jc_status' = status
           /\ jc_pc' = IF status \in {"completed", "failed"}
                       THEN "retrieve" ELSE "sleeping"
    /\ UNCHANGED <<jc_file, jc_json_data, jc_known_entities, jc_terms,
                   jc_tasks, jc_output, jc_term_to_label, fnVars, xmlVars,
                   uriVars, pipeVars, dbVars>>

\* time.sleep(5), and the loop goes round.
JcSleep ==
    /\ jc_pc = "sleeping"
    /\ jc_pc' = "polling"
    /\ UNCHANGED <<jc_file, jc_json_data, jc_known_entities, jc_terms,
                   jc_tasks, jc_status, jc_output, jc_term_to_label, fnVars,
                   xmlVars, uriVars, pipeVars, dbVars>>

\* matched_data: one item for each custom_id of the tasks file.
JcMatchedData(tasks, output_dict) ==
    [t \in 1..Len(tasks) |->
        [custom_id |-> tasks[t].custom_id,
         content |-> tasks[t].content,
         classification |->
             DictGet(output_dict, tasks[t].custom_id, "Unknown")]]

\* The custom_id indexes of the tasks.
JcTaskIds(tasks) == {tasks[t].custom_id : t \in 1..Len(tasks)}

\* "Retrieve Results" and "Process Results". A failed batch has no output
\* file and the download raises; a completed one holds a line for some of
\* the tasks.
JcRetrieveResults ==
    /\ jc_pc = "retrieve"
    /\ \/ /\ jc_status = "failed"
          /\ jc_pc' = "raised"
          /\ UNCHANGED <<jc_output, jc_term_to_label>>
       \/ /\ jc_status = "completed"
          /\ \E answered \in SUBSET JcTaskIds(jc_tasks) :
                 \E output_dict \in [answered -> JcLabels] :
                     /\ jc_output' = output_dict
                     /\ jc_term_to_label' = JcMatchedData(jc_tasks, output_dict)
          /\ jc_pc' = "update"
    /\ UNCHANGED <<jc_file, jc_json_data, jc_known_entities, jc_terms,
                   jc_tasks, jc_status, fnVars, xmlVars, uriVars, pipeVars, dbVars>>

\* "Convert classified terms to dict": a later item replaces an earlier one
\* of the same normalized content.
RECURSIVE JcTermToLabelDict(_, _)
JcTermToLabelDict(d, items) ==
    IF items = <<>> THEN d
    ELSE JcTermToLabelDict(
             DictSet(d, jc_normalize_term(Head(items).content),
                     [type |-> LabelLower(Head(items).classification)]),
             Tail(items))

\* json_classification.py: create_term_obj
create_term_obj(term, label) ==
    [term |-> IF label = "person" THEN jc_convert_name(term) ELSE term,
     type |-> LabelLower(label)]

\* term.get(name, "") with the term string taken out of a dictionary. An
\* index term of the JSON file as loaded has the key 'main' and its texts are
\* str; one that update_json has built has the key 'term' and its midsub and
\* sub are dictionaries.
JcTermStr(term, name) ==
    IF name \notin DOMAIN term THEN <<>>
    ELSE IF "main" \in DOMAIN term THEN term[name]
    ELSE term[name].term

\* The body of the loop of update_json over index terms.
JcUpdatedTerm(term, matched_data, known) ==
    LET main_term_str == JcTermStr(term, "main")
        midsub_term_str == JcTermStr(term, "midsub")
        sub_term_str == JcTermStr(term, "sub")
        normalized_main == jc_normalize_term(main_term_str)
        normalized_midsub == jc_normalize_term(midsub_term_str)
        normalized_sub == jc_normalize_term(sub_term_str)
        main_label ==
            IF normalized_main \in DOMAIN known
            THEN known[normalized_main]
            ELSE DictGet(matched_data, normalized_main, [type |-> "TERM"]).type
        midsub_label ==
            IF midsub_term_str # <<>>
            THEN DictGet(matched_data, normalized_midsub, [type |-> "TERM"]).type
            ELSE "TERM"
        sub_label ==
            IF sub_term_str # <<>>
            THEN DictGet(matched_data, normalized_sub, [type |-> "TERM"]).type
            ELSE "TERM"
        main_term_obj == create_term_obj(main_term_str, main_label)
        with_midsub ==
            IF midsub_term_str # <<>>
            THEN SetField(main_term_obj, "midsub",
                          create_term_obj(midsub_term_str, midsub_label))
            ELSE main_term_obj
    IN  IF sub_term_str # <<>>
        THEN SetField(with_midsub, "sub",
                      create_term_obj(sub_term_str, sub_label))
        ELSE with_midsub

\* p['name'] = convert_name(p['name']) for each p of the list.
JcConvertNames(persons) ==
    [i \in 1..Len(persons) |->
        [persons[i] EXCEPT !.name = jc_convert_name(persons[i].name)]]

\* json_classification.py: update_json
update_json(documents, matched_data, known) ==
    [d \in 1..Len(documents) |->
        [documents[d] EXCEPT
            !.authors = JcConvertNames(documents[d].authors),
            !.recipients = JcConvertNames(documents[d].recipients),
            !.indexing =
                [k \in 1..Len(documents[d].indexing) |->
                    JcUpdatedTerm(documents[d].indexing[k], matched_data,
                                  known)]]]

\* The end of the script: the dict of labels, update_json, the file written.
JcUpdateJson ==
    /\ jc_pc = "update"
    /\ jc_json_data' =
           update_json(jc_json_data,
                       JcTermToLabelDict(EmptyDict, jc_term_to_label),
                       jc_known_entities)
    /\ jc_pc' = "done"
    /\ UNCHANGED <<jc_file, jc_known_entities, jc_terms, jc_tasks, jc_status,
                   jc_output, jc_term_to_label, fnVars, xmlVars, uriVars, pipeVars, dbVars>>

\* update_json called once more with the object it has updated and the same
\* labels.
JcUpdateJsonAgain ==
    /\ jc_pc = "done"
    /\ jc_json_data' =
           update_json(jc_json_data,
                       JcTermToLabelDict(EmptyDict, jc_term_to_label),
                       jc_known_entities)
    /\ jc_pc' = "updated_twice"
    /\ UNCHANGED <<jc_file, jc_known_entities, jc_terms, jc_tasks, jc_status,
                   jc_output, jc_term_to_label, fnVars, xmlVars, uriVars,
                   pipeVars, dbVars>>

JcNext ==
    \/ JcExtractTerms
    \/ JcWriteTasks
    \/ JcCreateBatch
    \/ JcPoll
    \/ JcSleep
    \/ JcRetrieveResults
    \/ JcUpdateJson
    \/ JcUpdateJsonAgain

SpecJc == JcInit /\ [][JcNext]_vars

\* The script runs on: each statement that can be executed is executed, and
\* the loop under "Await response" sleeps five seconds and polls again.
SpecJcLive == SpecJc /\ WF_vars(JcNext)

\* ------------------------------------------------------------------------
\* generate_uri.py
\* ------------------------------------------------------------------------

\* The JSON files given to the run, as json_classification.py writes them:
\* names are "First Last", an index term is an object of term and type
\* that may hold a midsub and a sub object.
\*   date-from: null, "1700-01"     names: "a b", "b a", "a"
UriDateFroms == { Null, Some(<<"1", "7", "0", "0", "-", "0", "1">>) }

UriAuthorLists == { <<>>, << [name |-> <<"a", " ", "b">>] >> }

UriRecipientLists == { <<>>, << [name |-> <<"b", " ", "a">>] >> }

UriLocations == { Null, Some([name |-> <<"a">>]) }

UriIndexLists ==
    { <<>>,
      << [term |-> <<"a">>, type |-> "term"] >>,
      << [term |-> <<"a", " ", "b">>, type |-> "person"] >>,
      << [term |-> <<>>, type |-> "unknown"] >>,
      << [term |-> <<"a">>] >>,
      << [term |-> <<"b">>, type |-> "term",
          midsub |-> [term |-> <<"a">>, type |-> "place"],
          sub |-> [term |-> <<"b", ",", "a">>, type |-> "unknown"]] >> }

UriDocuments ==
    [date_from : UriDateFroms, authors : UriAuthorLists,
     recipients : UriRecipientLists, location : UriLocations,
     indexing : UriIndexLists]

\* The visits of add_uris_to_json to one document, in order: the document
\* itself (its year is read), its authors, its recipients, its location and
\* the term objects of its index terms.
UriVisit(d, field, i, position) ==
    [doc |-> d, field |-> field, i |-> i, position |-> position]

UriIndexVisits(d, term, k) ==
    <<UriVisit(d, "indexing", k, "main")>>
        \o (IF "midsub" \in DOMAIN term
            THEN <<UriVisit(d, "indexing", k, "midsub")>> ELSE <<>>)
        \o (IF "sub" \in DOMAIN term
            THEN <<UriVisit(d, "indexing", k, "sub")>> ELSE <<>>)

RECURSIVE UriIndexingVisits(_, _, _)
UriIndexingVisits(d, indexing, k) ==
    IF k > Len(indexing) THEN <<>>
    ELSE UriIndexVisits(d, indexing[k], k)
             \o UriIndexingVisits(d, indexing, k + 1)

UriDocumentVisits(d, document) ==
    <<UriVisit(d, "document", 0, "-")>>
        \o [i \in 1..Len(document.authors) |-> UriVisit(d, "authors", i, "-")]
        \o [i \in 1..Len(document.recipients) |->
               UriVisit(d, "recipients", i, "-")]
        \o (IF document.location # Null
            THEN <<UriVisit(d, "location", 1, "-")>> ELSE <<>>)
        \o UriIndexingVisits(d, document.indexing, 1)

RECURSIVE UriVisits(_, _)
UriVisits(documents, d) ==
    IF d > Len(documents) THEN <<>>
    ELSE UriDocumentVisits(d, documents[d]) \o UriVisits(documents, d + 1)

UriInit ==
    /\ uri_json_data \in UNION {[1..n -> UriDocuments] : n \in 1..MaxUriDocs}
    /\ uri_work = UriVisits(uri_json_data, 1)
    /\ uri_pos = 0
    /\ uri_attempt = 0
    /\ uri_pc = "running"
    /\ FnIdle
    /\ XmlIdle
    /\ JcIdle
    /\ PipeIdle
    /\ DbIdle

\* The term object of a visit.
UriObjectAt(documents, visit) ==
    LET document == documents[visit.doc]
    IN  CASE visit.field = "authors" -> document.authors[visit.i]
          [] visit.field = "recipients" -> document.recipients[visit.i]
          [] visit.field = "location" -> document.location[1]
          [] visit.field = "indexing" /\ visit.position = "main" ->
                 document.indexing[visit.i]
          [] visit.field = "indexing" /\ visit.position # "main" ->
                 document.indexing[visit.i][visit.position]

\* The documents with the term object of a visit replaced.
UriWithObject(documents, visit, obj) ==
    LET d == visit.doc
        i == visit.i
    IN  CASE visit.field = "authors" ->
                 [documents EXCEPT ![d].authors[i] = obj]
          [] visit.field = "recipients" ->
                 [documents EXCEPT ![d].recipients[i] = obj]
          [] visit.field = "location" ->
                 [documents EXCEPT ![d].location = Some(obj)]
          [] visit.field = "indexing" /\ visit.position = "main" ->
                 [documents EXCEPT ![d].indexing[i] = obj]
          [] visit.field = "indexing" /\ visit.position # "main" ->
                 [documents EXCEPT ![d].indexing[i] =
                     SetField(documents[d].indexing[i], visit.position, obj)]

\* document.get('dates', {}).get('date-from', '')[:4]
UriDocumentDate(document) ==
    SubSeq(document.date_from[1], 1,
           IF Len(document.date_from[1]) < 4
           THEN Len(document.date_from[1]) ELSE 4)

\* term_obj.get('term') or term_obj.get('name'), "" when neither is there.
UriTermValue(term_obj) ==
    IF "term" \in DOMAIN term_obj /\ term_obj.term # <<>> THEN term_obj.term
    ELSE IF "name" \in DOMAIN term_obj THEN term_obj.name
    ELSE <<>>

\* The text generate_uri is called on: the name of an author, a recipient
\* or a location, the term of an index term object.
UriText(visit, term_obj) ==
    IF visit.field = "indexing" THEN term_obj.term ELSE term_obj.name

\* Whether the visit makes a URI: always for authors, recipients and the
\* location, and by the test of add_uri_if_needed for an index term object.
UriWanted(visit, term_obj) ==
    \/ visit.field \in {"authors", "recipients", "location"}
    \/ /\ visit.field = "indexing"
       /\ ~("type" \in DOMAIN term_obj /\ term_obj.type = "term")

UriCurrent == uri_work[uri_pos + 1]

UriVisiting ==
    /\ uri_pc = "running"
    /\ uri_pos < Len(uri_work)

\* The head of the loop over documents: the year of the document is read.
\* Slicing a null date-from raises TypeError.
UriStartDocument ==
    /\ UriVisiting
    /\ UriCurrent.field = "document"
    /\ IF uri_json_data[UriCurrent.doc].date_from = Null
       THEN uri_pc' = "raised" /\ UNCHANGED uri_pos
       ELSE uri_pos' = uri_pos + 1 /\ UNCHANGED uri_pc
    /\ UNCHANGED <<uri_json_data, uri_work, uri_attempt, fnVars, xmlVars,
                   jcVars, pipeVars, dbVars>>

\* add_uri_if_needed on a term object of type 'term': nothing is done.
UriSkipTerm ==
    /\ UriVisiting
    /\ UriCurrent.field # "document"
    /\ ~UriWanted(UriCurrent, UriObjectAt(uri_json_data, UriCurrent))
    /\ uri_pos' = uri_pos + 1
    /\ UNCHANGED <<uri_json_data, uri_work, uri_attempt, uri_pc, fnVars,
                   xmlVars, jcVars, pipeVars, dbVars>>

\* A term object with no text: add_viaf_uris returns at once and the URI is
\* generated.
UriNoTermValue ==
    /\ UriVisiting
    /\ UriCurrent.field # "document"
    /\ LET term_obj == UriObjectAt(uri_json_data, UriCurrent)
       IN  /\ UriWanted(UriCurrent, term_obj)
           /\ UriTermValue(term_obj) = <<>>
           /\ uri_json_data' =
                  UriWithObject(uri_json_data, UriCurrent,
                      SetField(term_obj, "uri",
                               gen_generate_uri(UriText(UriCurrent, term_obj))))
    /\ uri_pos' = uri_pos + 1
    /\ UNCHANGED <<uri_work, uri_attempt, uri_pc, fnVars, xmlVars, jcVars, pipeVars, dbVars>>

\* One attempt of query_viaf_cluster raises. The fifth makes tenacity raise
\* RetryError, which add_viaf_uris does not catch.
UriViafAttemptFails ==
    /\ UriVisiting
    /\ UriCurrent.field # "document"
    /\ LET term_obj == UriObjectAt(uri_json_data, UriCurrent)
       IN  /\ UriWanted(UriCurrent, term_obj)
           /\ UriTermValue(term_obj) # <<>>
    /\ uri_attempt < ViafAttempts
    /\ uri_attempt' = uri_attempt + 1
    /\ uri_pc' = IF uri_attempt + 1 = ViafAttempts THEN "raised" ELSE uri_pc
    /\ UNCHANGED <<uri_json_data, uri_work, uri_pos, fnVars, xmlVars, jcVars, pipeVars, dbVars>>

\* An attempt of query_viaf_cluster returns: the rest of add_viaf_uris, then
\* the URI is generated. The TypeError of the sort is not caught.
UriViafAnswers ==
    /\ UriVisiting
    /\ UriCurrent.field # "document"
    /\ uri_attempt < ViafAttempts
    /\ LET term_obj == UriObjectAt(uri_json_data, UriCurrent)
           document_date == UriDocumentDate(uri_json_data[UriCurrent.doc])
       IN  /\ UriWanted(UriCurrent, term_obj)
           /\ UriTermValue(term_obj) # <<>>
           /\ \E viaf_response \in ViafResponses :
                  LET added == add_viaf_uris(term_obj, viaf_response,
                                             document_date)
                  IN  IF added.raised
                      THEN /\ uri_pc' = "raised"
                           /\ UNCHANGED <<uri_json_data, uri_pos, uri_attempt>>
                      ELSE /\ uri_json_data' =
                                  UriWithObject(uri_json_data, UriCurrent,
                                      SetField(added.value, "uri",
                                          gen_generate_uri(
                                              UriText(UriCurrent, term_obj))))
                           /\ uri_pos' = uri_pos + 1
                           /\ uri_attempt' = 0
                           /\ UNCHANGED uri_pc
    /\ UNCHANGED <<uri_work, fnVars, xmlVars, jcVars, pipeVars, dbVars>>

\* After the loop: the debug file is saved and the JSON file rewritten.
UriWriteJson ==
    /\ uri_pc = "running"
    /\ uri_pos = Len(uri_work)
    /\ uri_pc' = "done"
    /\ UNCHANGED <<uri_json_data, uri_work, uri_pos, uri_attempt, fnVars,
                   xmlVars, jcVars, pipeVars, dbVars>>

UriNext ==
    \/ UriStartDocument
    \/ UriSkipTerm
    \/ UriNoTermValue
    \/ UriViafAttemptFails
    \/ UriViafAnswers
    \/ UriWriteJson

SpecUri == UriInit /\ [][UriNext]_vars

\* ------------------------------------------------------------------------
\* run_pipeline.py
\* ------------------------------------------------------------------------

\* max_concurrent
max_concurrent == 3

\* The stages of process_file_pipeline: xml_to_json, json_classification,
\* generate_uri, json_to_db.
PipeStages == 1..4

\* The return codes subprocess.run can give for a stage.
\* json_classification.py is given the argument '' when test_mode is off,
\* generate_uri.py is given no position and json_to_db.py is given one it
\* does not declare: argparse exits with status 2.
PipeReturnCodes(stage, test_mode) ==
    CASE stage = 1 -> {0, 1}
      [] stage = 2 -> IF test_mode THEN {0, 1} ELSE {2}
      [] stage = 3 -> {2}
      [] stage = 4 -> {2}

\* str.replace(old, new): every non-overlapping occurrence of old, found left
\* to right from position i, replaced by new.
RECURSIVE ReplaceFrom(_, _, _, _)
ReplaceFrom(s, old, new, i) ==
    IF i > Len(s) THEN <<>>
    ELSE IF MatchAt(s, old, i)
    THEN new \o ReplaceFrom(s, old, new, i + Len(old))
    ELSE <<s[i]>> \o ReplaceFrom(s, old, new, i + 1)

\* The name of the f-th XML file of the run: the names of a run differ.
PipeXmlFile(f) ==
    [i \in 1..f |-> "a"] \o <<".", "x", "m", "l">>

\* json_file = xml_file.replace('.xml', '.json')
PipeJsonFile(xml_file) ==
    ReplaceFrom(xml_file, <<".", "x", "m", "l">>,
                <<".", "j", "s", "o", "n">>, 1)

\* The answers to the prompts of xml_to_json.py, which reads its
\* configuration from the prompts and not from its arguments: "y" keeps the
\* default configuration and "n, y" has the JSON file saved at a path that is
\* entered, here the file's own JSON file name. (Answering that nothing is to
\* be saved turns save_json off, and the stage then writes no file.)
PipeAnswers == {"y", "n, y"}

\* A path: the directory it is relative to and the file name.
PipePath(dir, name) == [dir |-> dir, name |-> name]

\* The paths the stage of the f-th file has written when it returns 0.
\* xml_to_json.py writes openai_response.json and its output JSON file in
\* the working directory when save_json is on; json_classification.py in
\* test mode writes 'data/' followed by the path it was given.
PipeStagePaths(stage, f, answer) ==
    CASE stage = 1 ->
             {PipePath("cwd", <<"openai_response.json">>),
              PipePath("cwd", IF answer = "y" THEN <<"output2.json">>
                              ELSE PipeJsonFile(PipeXmlFile(f)))}
      [] stage = 2 ->
             {PipePath("data/data_dir", PipeJsonFile(PipeXmlFile(f)))}
      [] OTHER -> {}

\* A file's pipeline: "queued" in the executor, "running" its stage,
\* "finished" after the last stage, "error" after a stage that returned
\* non-zero, "raised" when process_file_pipeline raised.
PipeFile(status, stage) == [status |-> status, stage |-> stage]

PipeEnded(file) == file.status \in {"finished", "error", "raised"}

PipeInit ==
    /\ pipe_test_mode \in BOOLEAN
    /\ pipe_files \in {[f \in 1..n |-> PipeFile("new", 0)] : n \in 0..MaxFiles}
    /\ pipe_future = 0
    /\ pipe_pc = "start"
    /\ pipe_answer \in PipeAnswers
    /\ pipe_written = {}
    /\ FnIdle
    /\ XmlIdle
    /\ JcIdle
    /\ UriIdle
    /\ DbIdle

\* "No XML files found in directory": run_pipeline returns.
PipeNoFiles ==
    /\ pipe_pc = "start"
    /\ pipe_files = <<>>
    /\ pipe_pc' = "returned"
    /\ UNCHANGED <<pipe_test_mode, pipe_files, pipe_future, pipe_answer,
                   pipe_written, fnVars, xmlVars, jcVars, uriVars, dbVars>>

\* executor.submit for each file.
PipeSubmit ==
    /\ pipe_pc = "start"
    /\ pipe_files # <<>>
    /\ pipe_files' = [f \in 1..Len(pipe_files) |-> PipeFile("queued", 0)]
    /\ pipe_pc' = "collecting"
    /\ UNCHANGED <<pipe_test_mode, pipe_future, pipe_answer, pipe_written,
                   fnVars, xmlVars, jcVars, uriVars, dbVars>>

\* A worker of the pool takes the next queued file and starts its first stage.
PipeStartFile ==
    /\ pipe_pc = "collecting"
    /\ Cardinality({f \in 1..Len(pipe_files) :
                       pipe_files[f].status = "running"}) < max_concurrent
    /\ \E f \in 1..Len(pipe_files) :
           /\ pipe_files[f].status = "queued"
           /\ \A g \in 1..(f - 1) : pipe_files[g].status # "queued"
           /\ pipe_files' = [pipe_files EXCEPT ![f] = PipeFile("running", 1)]
    /\ UNCHANGED <<pipe_test_mode, pipe_future, pipe_pc, pipe_answer,
                   pipe_written, fnVars, xmlVars, jcVars, uriVars, dbVars>>

\* As PipeAfterStage, but a non-zero return code also cancels the files
\* still queued.
PipeAfterStageCancelling(files, f, returncode) ==
    LET stage == files[f].stage
    IN  IF returncode # 0
        THEN [g \in 1..Len(files) |->
                 IF g = f \/ files[g].status = "queued"
                 THEN PipeFile("error", files[g].stage) ELSE files[g]]
        ELSE [files EXCEPT ![f] =
                 IF stage = 4 THEN PipeFile("finished", stage)
                 ELSE PipeFile("running", stage + 1)]

\* The files after the stage of file f has returned with the return code.
PipeAfterStage(files, f, returncode) ==
    LET stage == files[f].stage
    IN  [files EXCEPT ![f] =
            IF returncode # 0 THEN PipeFile("error", stage)
            ELSE IF stage = 4 THEN PipeFile("finished", stage)
            ELSE PipeFile("running", stage + 1)]

\* The files after subprocess.run has raised in the stage of file f.
PipeAfterRaise(files, f) ==
    [files EXCEPT ![f] = PipeFile("raised", files[f].stage)]

\* The subprocess of the stage a file is in ends, or could not be run.
PipeStageEnds ==
    /\ pipe_pc = "collecting"
    /\ \E f \in 1..Len(pipe_files) :
           /\ pipe_files[f].status = "running"
           /\ \/ /\ pipe_files' = PipeAfterRaise(pipe_files, f)
                 /\ UNCHANGED pipe_written
              \/ \E returncode \in PipeReturnCodes(pipe_files[f].stage,
                                                   pipe_test_mode) :
                     /\ pipe_files' = PipeAfterStage(pipe_files, f, returncode)
                     /\ pipe_written' =
                            IF returncode = 0
                            THEN pipe_written \cup
                                     {[path |-> path, file |-> f] :
                                         path \in PipeStagePaths(
                                                      pipe_files[f].stage, f,
                                                      pipe_answer)}
                            ELSE pipe_written
    /\ UNCHANGED <<pipe_test_mode, pipe_future, pipe_pc, pipe_answer, fnVars,
                   xmlVars, jcVars, uriVars, dbVars>>

\* future.result() of the next future returns, or raises and the error is
\* printed.
PipeCollectResult ==
    /\ pipe_pc = "collecting"
    /\ pipe_future < Len(pipe_files)
    /\ PipeEnded(pipe_files[pipe_future + 1])
    /\ pipe_future' = pipe_future + 1
    /\ UNCHANGED <<pipe_test_mode, pipe_files, pipe_pc, pipe_answer,
                   pipe_written, fnVars, xmlVars, jcVars, uriVars, dbVars>>

\* The loop over the futures is over and the executor is shut down.
PipeReturn ==
    /\ pipe_pc = "collecting"
    /\ pipe_future = Len(pipe_files)
    /\ \A f \in 1..Len(pipe_files) : PipeEnded(pipe_files[f])
    /\ pipe_pc' = "returned"
    /\ UNCHANGED <<pipe_test_mode, pipe_files, pipe_future, pipe_answer,
                   pipe_written, fnVars, xmlVars, jcVars, uriVars, dbVars>>

PipeNext ==
    \/ PipeNoFiles
    \/ PipeSubmit
    \/ PipeStartFile
    \/ PipeStageEnds
    \/ PipeCollectResult
    \/ PipeReturn

SpecPipe == PipeInit /\ [][PipeNext]_vars

\* Every subprocess ends, every idle worker takes a queued file and the
\* caller goes on when it can.
SpecPipeLive == SpecPipe /\ WF_vars(PipeNext)

\* ------------------------------------------------------------------------
\* json_to_db.py
\* ------------------------------------------------------------------------

\* The JSON files given to import_data, as generate_uri.py writes them:
\* authors, recipients and location have a name and a uri, an index term of
\* type person, place or organization has a uri, and an index term may hold
\* a midsub and a sub object.
DbAuthorLists == { <<>>, << [name |-> "Tom", uri |-> "r1"] >> }

DbRecipientLists == { <<>>, << [name |-> "Ann", uri |-> "r2"] >> }

DbLocations == { Null, Some([name |-> "Paris", uri |-> "r3"]) }

DbDates == [date_from : {Null, Some("1700")}, date_to : {Null, Some("1701")}]

DbIndexLists ==
    { <<>>,
      << [term |-> "law", type |-> "term"] >>,
      << [term |-> "law", type |-> "term",
          midsub |-> [term |-> "tax", type |-> "term"],
          sub |-> [term |-> "inn", type |-> "term"]] >>,
      << [term |-> "Tom", type |-> "person", uri |-> "r1",
          midsub |-> [term |-> "tax", type |-> "term"]] >>,
      << [term |-> "Paris", type |-> "place", uri |-> "r3",
          sub |-> [term |-> "inn", type |-> "term"]] >>,
      << [term |-> "Bank", type |-> "organization", uri |-> "r4",
          midsub |-> [term |-> "tax", type |-> "term"],
          sub |-> [term |-> "inn", type |-> "term"]] >> }

DbDocuments ==
    [documentID : {"d1"}, authors : DbAuthorLists,
     recipients : DbRecipientLists, location : DbLocations, dates : DbDates,
     indexing : DbIndexLists]

\* A write handed to session.execute_write: the function and its arguments.
DbWrite(op, args) == [op |-> op, args |-> args]

\* create_person followed by create_relationship, for each person of the list.
RECURSIVE DbPersonWrites(_, _, _)
DbPersonWrites(document_id, persons, role) ==
    IF persons = <<>> THEN <<>>
    ELSE << DbWrite("create_person",
                    [term |-> Head(persons).name, uri |-> Head(persons).uri]),
            DbWrite("create_relationship",
                    [document_id |-> document_id, uri |-> Head(persons).uri,
                     role |-> role]) >>
             \o DbPersonWrites(document_id, Tail(persons), role)

\* create_date followed by relate_date, when the date is there and not empty.
DbDateWrites(document_id, date, role) ==
    IF date # Null /\ date[1] # ""
    THEN << DbWrite("create_date", [date |-> date[1]]),
            DbWrite("relate_date",
                    [document_id |-> document_id, date |-> date[1],
                     role |-> role]) >>
    ELSE <<>>

\* create_term followed by relate_sub_term, when the index term has the key.
DbSubTermWrites(term, key, parent_type) ==
    IF key \in DOMAIN term
    THEN << DbWrite("create_term", [term |-> term[key].term]),
            DbWrite("relate_sub_term",
                    [parent_term |-> term.term, sub_term |-> term[key].term,
                     relation_type |-> key, parent_type |-> parent_type]) >>
    ELSE <<>>

\* The creator, the role and the parent label that go with the type of an
\* index term.
DbBranch(type) ==
    CASE type = "person" ->
             [create |-> "create_person", role |-> "HAS_PERSON",
              parent_type |-> "Person"]
      [] type = "place" ->
             [create |-> "create_place", role |-> "HAS_PLACE",
              parent_type |-> "Place"]
      [] type = "organization" ->
             [create |-> "create_organization", role |-> "HAS_ORGANIZATION",
              parent_type |-> "Organization"]
      [] OTHER ->
             [create |-> "create_term", role |-> "HAS_TERM",
              parent_type |-> "Term"]

\* The body of the loop of import_data over the index terms.
DbIndexTermWrites(document_id, term) ==
    LET branch == DbBranch(term.type)
    IN  (IF branch.create = "create_term"
         THEN << DbWrite("create_term", [term |-> term.term]),
                 DbWrite("relate_index_term",
                         [document_id |-> document_id, term |-> term.term]) >>
         ELSE << DbWrite(branch.create,
                         [term |-> term.term, uri |-> term.uri]),
                 DbWrite("create_relationship",
                         [document_id |-> document_id, uri |-> term.uri,
                          role |-> branch.role]) >>)
            \o DbSubTermWrites(term, "midsub", branch.parent_type)
            \o DbSubTermWrites(term, "sub", branch.parent_type)

RECURSIVE DbIndexingWrites(_, _)
DbIndexingWrites(document_id, indexing) ==
    IF indexing = <<>> THEN <<>>
    ELSE DbIndexTermWrites(document_id, Head(indexing))
             \o DbIndexingWrites(document_id, Tail(indexing))

\* The body of the loop of import_data over the documents.
DbDocumentWrites(document) ==
    LET document_id == document.documentID
    IN  << DbWrite("create_document", [documentID |-> document_id]) >>
            \o DbPersonWrites(document_id, document.authors, "author")
            \o DbPersonWrites(document_id, document.recipients, "recipient")
            \o (IF document.location # Null
                THEN << DbWrite("create_place",
                                [term |-> document.location[1].name,
                                 uri |-> document.location[1].uri]),
                        DbWrite("create_relationship",
                                [document_id |-> document_id,
                                 uri |-> document.location[1].uri,
                                 role |-> "location"]) >>
                ELSE <<>>)
            \o DbDateWrites(document_id, document.dates.date_from, "DATE_FROM")
            \o DbDateWrites(document_id, document.dates.date_to, "DATE_TO")
            \o DbIndexingWrites(document_id, document.indexing)

RECURSIVE DbAllWrites(_)
DbAllWrites(documents) ==
    IF documents = <<>> THEN <<>>
    ELSE DbDocumentWrites(Head(documents)) \o DbAllWrites(Tail(documents))

\* role.upper()
DbUpper(role) ==
    CASE role = "author" -> "AUTHOR"
      [] role = "recipient" -> "RECIPIENT"
      [] role = "location" -> "LOCATION"
      [] role = "midsub" -> "MIDSUB"
      [] role = "sub" -> "SUB"
      [] OTHER -> role

\* The node a MERGE of a create function finds or creates.
DbMergedNode(write) ==
    CASE write.op = "create_document" ->
             [label |-> "Document", documentID |-> write.args.documentID]
      [] write.op = "create_person" ->
             [label |-> "Person", name |-> write.args.term,
              uri |-> write.args.uri]
      [] write.op = "create_place" ->
             [label |-> "Place", name |-> write.args.term,
              uri |-> write.args.uri]
      [] write.op = "create_organization" ->
             [label |-> "Organization", name |-> write.args.term,
              uri |-> write.args.uri]
      [] write.op = "create_term" ->
             [label |-> "Term", term |-> write.args.term]
      [] write.op = "create_date" ->
             [label |-> "Date", date |-> write.args.date]

\* MATCH (n:label {property: value}); any label when label is "".
DbMatch(nodes, label, property, value) ==
    {n \in nodes :
        /\ label = "" \/ n.label = label
        /\ property \in DOMAIN n
        /\ n[property] = value}

\* The two MATCH clauses of a relating function: the nodes the relationship
\* starts from and those it goes to. relate_sub_term finds its second
\* endpoint by MERGE, so that endpoint is there whenever the first is.
DbFrom(write, nodes) ==
    CASE write.op = "create_relationship" ->
             DbMatch(nodes, "", "uri", write.args.uri)
      [] write.op \in {"relate_index_term", "relate_date"} ->
             DbMatch(nodes, "Document", "documentID", write.args.document_id)
      [] write.op = "relate_sub_term" ->
             DbMatch(nodes, write.args.parent_type, "term",
                     write.args.parent_term)

DbTo(write, nodes) ==
    CASE write.op = "create_relationship" ->
             DbMatch(nodes, "Document", "documentID", write.args.document_id)
      [] write.op = "relate_index_term" ->
             DbMatch(nodes, "Term", "term", write.args.term)
      [] write.op = "relate_date" ->
             DbMatch(nodes, "Date", "date", write.args.date)
      [] write.op = "relate_sub_term" ->
             IF DbFrom(write, nodes) = {} THEN {}
             ELSE {[label |-> "Term", term |-> write.args.sub_term]}

DbRelationType(write) ==
    CASE write.op = "create_relationship" -> DbUpper(write.args.role)
      [] write.op = "relate_index_term" -> "HAS_TERM"
      [] write.op = "relate_date" -> DbUpper(write.args.role)
      [] write.op = "relate_sub_term" -> DbUpper(write.args.relation_type)

DbCreators ==
    {"create_document", "create_person", "create_place",
     "create_organization", "create_term", "create_date"}

DbInit ==
    /\ db_json_data \in UNION {[1..n -> DbDocuments] : n \in 1..MaxDbDocs}
    /\ db_writes = DbAllWrites(db_json_data)
    /\ db_pos = 0
    /\ db_nodes = {}
    /\ db_rels = {}
    /\ FnIdle
    /\ XmlIdle
    /\ JcIdle
    /\ UriIdle
    /\ PipeIdle

DbNextWrite == db_writes[db_pos + 1]

\* session.execute_write of a create function: the MERGE of one node.
DbCreateNode ==
    /\ db_pos < Len(db_writes)
    /\ DbNextWrite.op \in DbCreators
    /\ db_nodes' = db_nodes \cup {DbMergedNode(DbNextWrite)}
    /\ db_pos' = db_pos + 1
    /\ UNCHANGED <<db_json_data, db_writes, db_rels, fnVars, xmlVars, jcVars,
                   uriVars, pipeVars>>

\* session.execute_write of create_relationship, relate_index_term or
\* relate_date: the MERGE of a relationship for every pair of matched nodes.
DbRelate ==
    /\ db_pos < Len(db_writes)
    /\ DbNextWrite.op \in
           {"create_relationship", "relate_index_term", "relate_date"}
    /\ db_rels' = db_rels \cup
           {[from |-> a, type |-> DbRelationType(DbNextWrite), to |-> b] :
               a \in DbFrom(DbNextWrite, db_nodes),
               b \in DbTo(DbNextWrite, db_nodes)}
    /\ db_pos' = db_pos + 1
    /\ UNCHANGED <<db_json_data, db_writes, db_nodes, fnVars, xmlVars, jcVars,
                   uriVars, pipeVars>>

\* session.execute_write of relate_sub_term: for every matched parent the sub
\* term node is merged and related; without a parent nothing is written.
DbRelateSubTerm ==
    /\ db_pos < Len(db_writes)
    /\ DbNextWrite.op = "relate_sub_term"
    /\ db_nodes' = db_nodes \cup DbTo(DbNextWrite, db_nodes)
    /\ db_rels' = db_rels \cup
           {[from |-> a, type |-> DbRelationType(DbNextWrite), to |-> b] :
               a \in DbFrom(DbNextWrite, db_nodes),
               b \in DbTo(DbNextWrite, db_nodes)}
    /\ db_pos' = db_pos + 1
    /\ UNCHANGED <<db_json_data, db_writes, fnVars, xmlVars, jcVars, uriVars,
                   pipeVars>>

DbNext ==
    \/ DbCreateNode
    \/ DbRelate
    \/ DbRelateSubTerm

SpecDb == DbInit /\ [][DbNext]_vars

\* ------------------------------------------------------------------------
\* Claims
\* ------------------------------------------------------------------------

\* The name with every letter lowercased and every space and comma removed.
ReducedName(name) == SelectSeq(Lower(name), LAMBDA c : c \notin {" ", ","})

\* C7: generate_uri depends only on the name lowercased and with its spaces and
\* commas removed: every name with the same reduction as the argument gets the
\* identifier the call returned, from either copy of generate_uri, and the two
\* copies return the same identifier.
C7_UriOfReducedName ==
    fnPc = "generate_uri" =>
        /\ fnRes.gen = fnRes.xml
        /\ \A other \in NameInputs :
               ReducedName(other) = ReducedName(fnArg.value) =>
                   /\ gen_generate_uri(other) = fnRes.gen
                   /\ xml_generate_uri(other) = fnRes.xml

\* C7 witness: generate_uri("A, ") has returned what generate_uri("a") returns.
C7_Witness ==
    /\ fnPc = "generate_uri"
    /\ fnArg.value = <<"A", ",", " ">>
    /\ fnRes.gen = gen_generate_uri(<<"a">>)
    /\ fnRes.gen = <<"r", 98926610>>

\* A text with its parenthesised content removed and its whitespace normalised:
\* runs collapsed to one space, leading and trailing whitespace dropped.
NormalisedText(text) == Strip(CollapseSpace(RemoveParens(text)))

NormalisedTriple(t) ==
    <<NormalisedText(t[1]), NormalisedText(t[2]), NormalisedText(t[3])>>

\* The triples of a sequence, each kept at its first occurrence only.
RECURSIVE FirstOccurrences(_, _)
FirstOccurrences(triples, seen) ==
    IF triples = <<>> THEN <<>>
    ELSE IF Head(triples) \in seen
         THEN FirstOccurrences(Tail(triples), seen)
         ELSE <<Head(triples)>>
                  \o FirstOccurrences(Tail(triples), seen \cup {Head(triples)})

\* C10: collect_terms_from_xml returns one entry per class of triples that are
\* equal after whitespace normalisation and removal of parenthesised content,
\* in the order of each class's first occurrence in the document.
C10_OneEntryPerClass ==
    fnPc = "collect_terms_from_xml" =>
        LET classes ==
                FirstOccurrences(
                    [i \in 1..Len(fnArg.value) |-> NormalisedTriple(fnArg.value[i])],
                    {})
        IN  /\ Len(fnRes) = Len(classes)
            /\ \A i \in 1..Len(fnRes) :
                   NormalisedTriple(<<fnRes[i].main, fnRes[i].midsub, fnRes[i].sub>>)
                       = classes[i]

\* C2: no term of a batch that has been sent is a known entity, for the first
\* batch and for every later one.
C2_SentTermsUnknown ==
    xml_pc = "awaiting" =>
        \A k \in 1..Len(xml_batch_terms) :
            xml_normalize_term(xml_batch_terms[k]) \notin DOMAIN xml_known_entities

MalformedKinds == {"not_json", "not_object", "terms_not_list", "item_missing_key"}

\* C4: reading a malformed response does not raise: classify_terms records no
\* label and goes on to the next batch.
C4_MalformedResponseSkipped ==
    [][(xml_pc = "awaiting" /\ xml_response' \in MalformedKinds) =>
           /\ xml_pc' = "classify"
           /\ xml_term_to_label' = xml_term_to_label
           /\ xml_i' = xml_i + xml_batch_size]_vars

\* The main, midsub and sub nodes of the index entries of the documents.
NodesOf(entry) ==
    {entry} \cup (IF "midsub" \in DOMAIN entry THEN {entry.midsub} ELSE {})
            \cup (IF "sub" \in DOMAIN entry THEN {entry.sub} ELSE {})

IndexNodes(documents) ==
    UNION { UNION { NodesOf(documents[d].indexing[k]) :
                      k \in 1..Len(documents[d].indexing) } :
              d \in 1..Len(documents) }

TermTypes == {"person", "place", "organization", "term"}

EntityTypes == {"person", "place", "organization"}

\* C5: in the output of parse_xml_to_json every index-term node has one of the
\* four types.
C5_NodeTypesInVocabulary ==
    xml_pc = "done" =>
        \A node \in IndexNodes(xml_documents) : node.type \in TermTypes

\* Whether a name is "Last, First": two non-empty parts around one ", ".
IsLastFirst(name) ==
    LET parts == Split(name, <<",", " ">>)
    IN  Len(parts) = 2 /\ parts[1] # <<>> /\ parts[2] # <<>>

FirstLast(name) ==
    LET parts == Split(name, <<",", " ">>) IN parts[2] \o <<" ">> \o parts[1]

PersonAsClaimed(person, source) ==
    IsLastFirst(source) =>
        /\ person.name = FirstLast(source)
        /\ person.uri = xml_generate_uri(FirstLast(source))

\* C8: in the output of parse_xml_to_json an author or recipient given as
\* "Last, First" has the name "First Last" and the uri of that name.
C8_PersonUriOfDisplayName ==
    xml_pc = "done" =>
        \A d \in 1..Len(xml_documents) :
            /\ \A k \in 1..Len(xml_documents[d].authors) :
                   PersonAsClaimed(xml_documents[d].authors[k],
                                   xml_root[d].authors[k])
            /\ \A k \in 1..Len(xml_documents[d].recipients) :
                   PersonAsClaimed(xml_documents[d].recipients[k],
                                   xml_root[d].recipients[k])

\* The type the vocabulary of the classifier maps a label to, whatever its
\* letter case.
TypeOfLabel(label) ==
    CASE LabelLower(label) = "person" -> "person"
      [] LabelLower(label) \in {"place", "gpe"} -> "place"
      [] LabelLower(label) \in {"organization", "org"} -> "organization"
      [] OTHER -> "term"

NodeAsClassified(node, term) ==
    (/\ term \in DOMAIN xml_term_to_label
     /\ TypeOfLabel(xml_term_to_label[term]) \in EntityTypes) =>
        /\ node.type = TypeOfLabel(xml_term_to_label[term])
        /\ "uri" \in DOMAIN node
        /\ node.uri = xml_generate_uri(term)

\* C9: a term the classifier labelled PERSON, PLACE or GPE, ORGANIZATION or ORG,
\* in any letter case, is a node of type person, place or organization with
\* the uri of the term.
C9_LabelDecidesTypeAndUri ==
    xml_pc = "done" =>
        \A d \in 1..Len(xml_documents) :
            \A k \in 1..Len(xml_documents[d].indexing) :
                LET entry == xml_documents[d].indexing[k]
                    term == collect_terms_from_xml(xml_root[d].indexing)[k]
                IN  /\ NodeAsClassified(entry, term.main)
                    /\ "midsub" \in DOMAIN entry =>
                           NodeAsClassified(entry.midsub, term.midsub)
                    /\ "sub" \in DOMAIN entry =>
                           NodeAsClassified(entry.sub, term.sub)

\* The term object built for a position of an index entry of the output.
JcNodeAt(entry, position) ==
    IF position = "main" THEN entry ELSE entry[position]

\* The positions of an index term that get a term object.
JcPositions(term) ==
    {"main"} \cup {position \in {"midsub", "sub"} : term[position] # <<>>}

\* C1: when update_json has run, every position of every index entry whose
\* normalized text is a key of known_entities has a term object of the type
\* that known_entities gives it.
C1_KnownEntityDecidesType ==
    jc_pc = "done" =>
        \A d \in 1..Len(jc_file) :
            \A k \in 1..Len(jc_file[d].indexing) :
                \A position \in JcPositions(jc_file[d].indexing[k]) :
                    LET text == jc_file[d].indexing[k][position]
                        key == jc_normalize_term(text)
                    IN  key \in DOMAIN jc_known_entities =>
                            JcNodeAt(jc_json_data[d].indexing[k], position).type
                                = jc_known_entities[key]

\* The tasks submitted for which the results hold no line.
JcUnanswered ==
    {t \in 1..Len(jc_tasks) : jc_tasks[t].custom_id \notin DOMAIN jc_output}

\* C3: a run whose batch completed with no result line for a submitted term
\* ends without an error, and every term object made from that term is in
\* the output with type 'term'.
C3_UnansweredTermIsTerm ==
    /\ (jc_status = "completed" /\ JcUnanswered # {}) => jc_pc # "raised"
    /\ jc_pc = "done" =>
           \A t \in JcUnanswered :
               \A d \in 1..Len(jc_file) :
                   \A k \in 1..Len(jc_file[d].indexing) :
                       \A position \in JcPositions(jc_file[d].indexing[k]) :
                           jc_file[d].indexing[k][position] = jc_tasks[t].content
                               => /\ k <= Len(jc_json_data[d].indexing)
                                  /\ JcNodeAt(jc_json_data[d].indexing[k],
                                              position).type = "term"

\* The term objects of the index terms of the documents of generate_uri.py.
UriIndexNodes(documents) ==
    UNION { UNION { {documents[d].indexing[k]}
                        \cup {documents[d].indexing[k][position] :
                                position \in {"midsub", "sub"}
                                    \cap DOMAIN documents[d].indexing[k]}
                    : k \in 1..Len(documents[d].indexing) }
            : d \in 1..Len(documents) }

\* C6: when add_uris_to_json has returned, a term object of an index term
\* has a 'uri' field if and only if its type is 'person', 'place' or
\* 'organization'.
C6_UriIffEntityType ==
    uri_pc = "done" =>
        \A node \in UriIndexNodes(uri_json_data) :
            "uri" \in DOMAIN node
                <=> ("type" \in DOMAIN node /\ node.type \in EntityTypes)

\* C11: neither the list of terms handed to classify_terms nor the tasks it
\* builds hold a text that is empty or made of whitespace only.
C11_NoEmptyTermSubmitted ==
    /\ \A i \in 1..Len(jc_terms) : Strip(jc_terms[i]) # <<>>
    /\ \A t \in 1..Len(jc_tasks) : Strip(jc_tasks[t].content) # <<>>

\* C12: when the fifth attempt of query_viaf_cluster for a term object has
\* failed, the run has not aborted: it goes on with the URI of that object.
C12_RetryExhaustionNotFatal ==
    uri_attempt = ViafAttempts => uri_pc # "raised"

\* Whether the year field of a record contains the hint.
YearHasHint(record, hint) ==
    record.dates # Null /\ Contains(record.dates[1], hint)

\* C13: process_viaf_response never raises; for a response with records and
\* no hint it returns the first record; with a hint it returns a record, and
\* one whose year contains the hint when there is such a record.
C13_ViafRecordSelected ==
    fnPc = "process_viaf_response" =>
        LET result == fnArg.value.response.result
            hint == fnArg.value.document_date
        IN  /\ ~fnRes.raised
            /\ (fnArg.value.response.has_result /\ result # <<>>) =>
                   /\ fnRes.value # Null
                   /\ hint = <<>> => fnRes.value[1].viaf = result[1].viafid
                   /\ (hint # <<>> /\ \E i \in 1..Len(result) :
                                         YearHasHint(result[i], hint))
                          => /\ fnRes.value[1].year # Null
                             /\ Contains(fnRes.value[1].year[1], hint)

\* C14: run_pipeline returns, and when it has returned every submitted file
\* has run its pipeline to its end, whatever the stages of the other files
\* gave; a queued file is only ever taken by a worker.
C14_FilesIsolated ==
    /\ [](pipe_pc = "returned" =>
              \A f \in 1..Len(pipe_files) :
                  PipeEnded(pipe_files[f]) /\ pipe_files[f].stage >= 1)
    /\ [][\A f \in 1..Len(pipe_files) :
              (pipe_files[f].status = "queued"
                   /\ pipe_files'[f] # pipe_files[f])
                  => pipe_files'[f] = PipeFile("running", 1)]_vars
    /\ <>(pipe_pc = "returned")

\* More files than workers, the first failed in its first stage, another
\* raised, and a later one went on to a later stage before the return.
C14_Witness ==
    /\ pipe_pc = "returned"
    /\ Len(pipe_files) > max_concurrent
    /\ pipe_files[1] = PipeFile("error", 1)
    /\ \E f \in 2..Len(pipe_files) : pipe_files[f].status = "raised"
    /\ \E f \in 2..Len(pipe_files) : pipe_files[f] = PipeFile("error", 3)

\* C15: a second call of update_json, given the object the first call was
\* given and the same labels, leaves the output of the first call on the
\* data as loaded.
C15_UpdateJsonIdempotent ==
    jc_pc = "updated_twice" =>
        jc_json_data =
            update_json(jc_file,
                        JcTermToLabelDict(EmptyDict, jc_term_to_label),
                        jc_known_entities)

\* C16: normalize_term applied to what normalize_term returned gives it
\* back, in the copy of json_classification.py and in that of xml_to_json.py.
C16_NormalizeIdempotent ==
    fnPc = "normalize_term" =>
        /\ jc_normalize_term(fnRes.jc) = fnRes.jc
        /\ xml_normalize_term(fnRes.xml) = fnRes.xml

\* " A\t  a" has been normalized to "a a".
C16_Witness ==
    /\ fnPc = "normalize_term"
    /\ fnArg.value = <<" ", "A", "\t", " ", "a">>
    /\ fnRes.jc = <<"a", " ", "a">>
    /\ fnRes.xml = <<"a", " ", "a">>

\* The type a position of an index entry gets from the label, by the code
\* of the second pass.
XmlTypeFromLabel(position, text, label) ==
    IF position = "main" THEN XmlMainTermObj(text, label).type
    ELSE XmlNestedTermObj(text, label).type

\* The response terms that differ from the text and have its normalized key.
XmlVariantsOf(text) ==
    {t \in DOMAIN xml_term_to_label :
        t # text /\ xml_normalize_term(t) = xml_normalize_term(text)}

\* C17: in the output of parse_xml_to_json, an index term answered only by a
\* pair whose term has the same normalized key has the type that the pair
\* would give it if its term were equal to the index term.
C17_ResultsMatchedByNormalizedKey ==
    xml_pc = "done" =>
        \A d \in 1..Len(xml_documents) :
            \A k \in 1..Len(xml_documents[d].indexing) :
                LET entry == xml_documents[d].indexing[k]
                    term == collect_terms_from_xml(xml_root[d].indexing)[k]
                IN  \A position \in JcPositions(term) :
                        LET text == term[position]
                        IN  text \notin DOMAIN xml_term_to_label =>
                                \A t \in XmlVariantsOf(text) :
                                    JcNodeAt(entry, position).type =
                                        XmlTypeFromLabel(position, text,
                                            XmlLabelOf(text, xml_known_entities,
                                                DictSet(xml_term_to_label, text,
                                                        xml_term_to_label[t])))

\* C18: no step of parse_xml_to_json removes a key of known_entities or
\* changes the kind it has.
C18_KnownEntitiesFirstWins ==
    [][\A key \in DOMAIN xml_known_entities :
           /\ key \in DOMAIN xml_known_entities'
           /\ xml_known_entities'[key] = xml_known_entities[key]]_vars

\* C19: a batch sent to the classifier holds no normalized term twice, and
\* none that an earlier response of the run has answered.
C19_TermSentOnce ==
    xml_pc = "awaiting" =>
        /\ \A i, j \in 1..Len(xml_batch_terms) :
               i # j => xml_normalize_term(xml_batch_terms[i])
                            # xml_normalize_term(xml_batch_terms[j])
        /\ \A i \in 1..Len(xml_batch_terms) :
               \A t \in DOMAIN xml_term_to_label :
                   xml_normalize_term(t)
                       # xml_normalize_term(xml_batch_terms[i])

\* C20: when a relationship write executes, the nodes of both its endpoints
\* are in the graph.
C20_EndpointsExist ==
    [][(db_pos' = db_pos + 1 /\ DbNextWrite.op \notin DbCreators) =>
           /\ DbFrom(DbNextWrite, db_nodes) # {}
           /\ DbTo(DbNextWrite, db_nodes) # {}]_vars

\* C22: a failure of the classification capability does not end the script
\* with an exception: neither the step after a batch creation that raised nor
\* the step after a batch job that ended with status 'failed' raises.
C22_CapabilityFailureNotFatal ==
    [][jc_pc' = "raised" =>
           /\ jc_pc # "create_batch"
           /\ ~(jc_pc = "retrieve" /\ jc_status = "failed")]_vars

\* C23: once the batch job has a final status (completed, failed, expired,
\* cancelled) while classify_terms polls, the polling loop is left.
C23_PollingTerminates ==
    (jc_pc \in {"polling", "sleeping"} /\ jc_status \in JcFinalStatuses)
        ~> (jc_pc \notin {"polling", "sleeping"})

\* C21: no path is written by the stages of two different XML files.
C21_NoSharedPaths ==
    \A w1, w2 \in pipe_written : w1.path = w2.path => w1.file = w2.file

====
